---------------------------- MODULE Spec2Model ----------------------------
(***************************************************************************)
(* A model of src/src/Utilities/utils.py: the uniqueness resolver          *)
(* add_uniqueness_context (with its helper get_nested_value) and the       *)
(* element budget of the extractor parse_html_for_elements.                *)
(*                                                                         *)
(* Python values are tagged tuples, so that values of different Python     *)
(* types are comparable and never equal: None is <<"None">>, a str is      *)
(* <<"str", s>> with s the sequence of its characters, an int is           *)
(* <<"int", n>>, a list is <<"list", l>> and a dict is <<"dict", d>> with  *)
(* d a function from keys to values.  An element record (a dict that is    *)
(* never used as a value) is the bare function; a key it lacks is not in   *)
(* its DOMAIN.  A key path is the sequence of its dot-separated keys, that *)
(* is key_path.split('.').                                                 *)
(***************************************************************************)
EXTENDS Naturals, Integers, Sequences, FiniteSets, TLC

VARIABLES
    pc,                      \* position in the function being executed
    call,                    \* 1 in the first resolver call, 2 in the repeated one
    elements_data,           \* the caller's list, whose records the call mutates
    primary_key,
    context_hierarchy,
    input0,                  \* the records as they were passed to the first call
    initial_groups,          \* groups in insertion order, as positions in elements_data
    gi,                      \* position of the group being processed
    ambiguous_subgroup,      \* the deep copies still to be resolved
    li,                      \* position of the context level being processed
    resolved_in_this_group,  \* original index -> level, as a set of pairs
    processed_elements_data, \* the result list being filled
    final_data,              \* the returned list
    first_result,            \* what the first call returned
    html_content,            \* the extractor's markup argument
    max_elements,
    stage,                   \* the extractor's current loop
    cursor,                  \* position in the current loop's find_all result
    element_count,
    elements,                \* category -> records emitted so far
    result,                  \* the mapping the extractor returned
    dom,                     \* the surroundings of a heading or link in the tree
    current,                 \* the element a walk of the tree is at
    dom_context,             \* the dom_context being filled for the element
    form,                    \* the form whose identifier is being determined
    form_identifier,
    identifier_found

vars == <<pc, call, elements_data, primary_key, context_hierarchy, input0,
          initial_groups, gi, ambiguous_subgroup, li, resolved_in_this_group,
          processed_elements_data, final_data, first_result,
          html_content, max_elements, stage, cursor, element_count, elements, result,
          dom, current, dom_context, form, form_identifier, identifier_found>>

resolverVars == <<call, elements_data, primary_key, context_hierarchy, input0,
          initial_groups, gi, ambiguous_subgroup, li, resolved_in_this_group,
          processed_elements_data, final_data, first_result>>

extractorVars == <<html_content, max_elements, stage, cursor, element_count,
          elements, result>>

contextVars == <<dom, current, dom_context>>

formVars == <<form, form_identifier, identifier_found>>

---------------------------------------------------------------------------
(* Bounds of the model *)

MaxRecords == 3

MaxLevels == 2

MaxNodes == 3

MaxBudget == 3

MaxDepth == 2

MaxSiblings == 4

MaxForms == 2

MaxCrossRecords == 4

MaxShrinkRecords == 3

---------------------------------------------------------------------------
(* Python values *)

None == <<"None">>

Str(s) == <<"str", s>>

Num(n) == <<"int", n>>

List(l) == <<"list", l>>

Dict(d) == <<"dict", d>>

Bool(b) == <<"bool", b>>

IsStr(v) == Len(v) = 2 /\ v[1] = "str"

IsList(v) == Len(v) = 2 /\ v[1] = "list"

IsDict(v) == Len(v) = 2 /\ v[1] = "dict"

\* Python truthiness of a value: None, '', [], {} and 0 are false.
Truthy(v) ==
    /\ v # None
    /\ (v[1] \in {"str", "list"} => Len(v[2]) > 0)
    /\ (v[1] = "dict" => DOMAIN v[2] # {})
    /\ (v[1] = "int" => v[2] # 0)
    /\ (v[1] = "bool" => v[2])

\* a or b
PyOr(a, b) == IF Truthy(a) THEN a ELSE b

\* hash(v) succeeds: a list and a dict cannot be the key of a dict.
Hashable(v) == ~IsList(v) /\ ~IsDict(v)

\* d.get(key) and d.get(key, default) of an element record
Get(d, key) == IF key \in DOMAIN d THEN d[key] ELSE None

GetOr(d, key, default) == IF key \in DOMAIN d THEN d[key] ELSE default

\* sep.join(tokens) of a list of strings
RECURSIVE Join(_, _)
Join(tokens, sep) ==
    IF Len(tokens) = 0 THEN <<>>
    ELSE IF Len(tokens) = 1 THEN tokens[1]
    ELSE tokens[1] \o sep \o Join(Tail(tokens), sep)

\* The first position at which sep occurs in s, 0 when it does not occur.
FirstIndex(s, sep) ==
    LET hits == {i \in 1..(Len(s) - Len(sep) + 1) : SubSeq(s, i, i + Len(sep) - 1) = sep}
    IN  IF hits = {} THEN 0 ELSE CHOOSE i \in hits : \A j \in hits : i <= j

\* s.split(sep)[-1]: what follows the last of the separators found left to right
RECURSIVE SplitLast(_, _)
SplitLast(s, sep) ==
    LET i == FirstIndex(s, sep)
    IN  IF i = 0 THEN s ELSE SplitLast(SubSeq(s, i + Len(sep), Len(s)), sep)

\* s.split(sep, 1)[-1]: what follows the first separator, s when there is none
SplitOnceLast(s, sep) ==
    LET i == FirstIndex(s, sep)
    IN  IF i = 0 THEN s ELSE SubSeq(s, i + Len(sep), Len(s))

\* s.split(sep)[0]: what precedes the first separator
SplitFirst(s, sep) ==
    LET i == FirstIndex(s, sep)
    IN  IF i = 0 THEN s ELSE SubSeq(s, 1, i - 1)

\* s.rstrip(ch)
RECURSIVE RStrip(_, _)
RStrip(s, ch) ==
    IF Len(s) > 0 /\ s[Len(s)] = ch THEN RStrip(SubSeq(s, 1, Len(s) - 1), ch) ELSE s

---------------------------------------------------------------------------
(* get_nested_value *)

\* The branch for the composite key 'href'.
HrefValue(data_dict) ==
    LET href == GetOr(data_dict, "href", Str(<<>>))
    IN  IF Truthy(href) /\ IsStr(href)
        THEN Str(SplitFirst(RStrip(SplitOnceLast(SplitLast(href[2], <<"/", "/">>),
                                                 <<"/">>), "/"), <<"?">>))
        ELSE None

\* The branch for the composite key 'parent_classes'; parent_info.get of a
\* parent that is no dict raises AttributeError, which the helper turns into None.
ParentClassesValue(data_dict) ==
    LET parent_info == Get(data_dict, "parent")
    IN  IF Truthy(parent_info) /\ IsDict(parent_info)
        THEN LET p_classes == Get(parent_info[2], "classes")
             IN  IF Truthy(p_classes) /\ IsList(p_classes)
                 THEN Str(Join(p_classes[2], <<" ">>))
                 ELSE None
        ELSE None

\* The branch for the composite key 'parent_description'.
ParentDescriptionValue(data_dict) ==
    LET parent_info == Get(data_dict, "parent")
    IN  IF Truthy(parent_info) /\ IsDict(parent_info)
        THEN LET desc == GetOr(parent_info[2], "tag", Str(<<"element">>))
                 parent_id == Get(parent_info[2], "id")
                 parent_classes == Get(parent_info[2], "classes")
             IN  IF Truthy(parent_id) /\ IsStr(parent_id) /\ IsStr(desc)
                 THEN Str(desc[2] \o <<" with ID \"">> \o parent_id[2] \o <<"\"">>)
                 ELSE IF Truthy(parent_classes) /\ IsList(parent_classes) /\ IsStr(desc)
                 THEN Str(desc[2] \o <<" with classes \"">>
                          \o Join(parent_classes[2], <<" ">>) \o <<"\"">>)
                 ELSE IF IsStr(desc) THEN Str(<<"parent ">> \o desc[2])
                 ELSE None
        ELSE None

\* Traverse giving up on any false value (None, '', [], 0), not on None alone.
RECURSIVE TraverseFalsy(_, _)
TraverseFalsy(current_value, keys) ==
    IF Len(keys) = 0 THEN current_value
    ELSE IF IsDict(current_value)
         THEN LET next == Get(current_value[2], Head(keys))
              IN  IF ~Truthy(next) THEN None ELSE TraverseFalsy(next, Tail(keys))
         ELSE None

\* The loop over the keys of a standard (direct or dotted) key path.
RECURSIVE Traverse(_, _)
Traverse(current_value, keys) ==
    IF Len(keys) = 0 THEN current_value
    ELSE IF IsDict(current_value)
         THEN LET next == Get(current_value[2], Head(keys))
              IN  IF next = None THEN None ELSE Traverse(next, Tail(keys))
         ELSE None

get_nested_value(data_dict, key_path) ==
    IF key_path = <<"sibling_text">>
    THEN PyOr(Get(data_dict, "next_sibling_text"), Get(data_dict, "prev_sibling_text"))
    ELSE IF key_path = <<"parent_classes">> THEN ParentClassesValue(data_dict)
    ELSE IF key_path = <<"parent_description">> THEN ParentDescriptionValue(data_dict)
    ELSE IF key_path = <<"href">> THEN HrefValue(data_dict)
    ELSE LET current_value == Traverse(Dict(data_dict), key_path)
         IN  IF key_path = <<"classes">> /\ IsList(current_value)
             THEN (IF Truthy(current_value)
                   THEN Str(Join(current_value[2], <<" ">>)) ELSE None)
             ELSE current_value

\* The str of a key path: its keys joined by '.'.
PathStr(key_path) == Str(Join([i \in 1..Len(key_path) |-> <<key_path[i]>>], <<".">>))

---------------------------------------------------------------------------
(* The inputs of the resolver *)

PrimaryKeys == {<<"text">>, <<"alt">>}

LevelKeys == {<<"id">>, <<"href">>, <<"parent", "id">>, <<"sibling_text">>}

\* Every ordered choice of at most MaxLevels distinct context levels.
Hierarchies ==
    {h \in UNION {[1..n -> LevelKeys] : n \in 0..MaxLevels} :
        \A i, j \in 1..Len(h) : i # j => h[i] # h[j]}

Absent == <<"absent">>

ParentInfo(id) == Dict([tag |-> Str(<<"div">>), classes |-> List(<<>>), id |-> id])

\* The values a record's field takes; Absent is a record without the key.
FieldValues(field) ==
    CASE field = "text" -> {None, Str(<<"t">>)}
      [] field = "alt" -> {Str(<<>>), Str(<<"t">>)}
      [] field = "id" -> {None, Str(<<>>), Str(<<"a">>)}
      [] field = "href" -> {Absent, Str(<<"h", ":", "/", "/", "x", "/", "p", "/">>)}
      [] field = "parent" -> {None, ParentInfo(Str(<<"m">>))}
      [] field = "siblings" -> {<<Str(<<>>), None>>, <<None, Str(<<"r">>)>>}

\* The fields of a record that a key path reads.
FieldsOf(key_path) ==
    IF key_path = <<"sibling_text">> THEN {"siblings"} ELSE {Head(key_path)}

\* The fields a call reads: those of its keys, and href when a resolution at
\* level 'id' under primary key 'text' may report the href instead.
ReadFields(pk, ch) ==
    FieldsOf(pk) \cup UNION {FieldsOf(ch[i]) : i \in 1..Len(ch)}
    \cup (IF pk = <<"text">> /\ \E i \in 1..Len(ch) : ch[i] = <<"id">>
          THEN {"href"} ELSE {})

Dom(field, read) == IF field \in read THEN FieldValues(field) ELSE {Absent}

MakeRecord(text, alt, id, href, parent, siblings) ==
    LET all == [k \in {"text", "alt", "id", "href", "parent",
                       "next_sibling_text", "prev_sibling_text"} |->
                   CASE k = "text" -> text
                     [] k = "alt" -> alt
                     [] k = "id" -> id
                     [] k = "href" -> href
                     [] k = "parent" -> parent
                     [] k = "next_sibling_text" ->
                            IF siblings = Absent THEN Absent ELSE siblings[1]
                     [] k = "prev_sibling_text" ->
                            IF siblings = Absent THEN Absent ELSE siblings[2]]
    IN  [k \in {x \in DOMAIN all : all[x] # Absent} |-> all[k]]

\* The records a call is given: they vary in the fields the call reads.
RecordPool(pk, ch) ==
    LET read == ReadFields(pk, ch)
    IN  {MakeRecord(text, alt, id, href, parent, siblings) :
            text \in Dom("text", read), alt \in Dom("alt", read),
            id \in Dom("id", read), href \in Dom("href", read),
            parent \in Dom("parent", read), siblings \in Dom("siblings", read)}

RecordLists(pk, ch) == UNION {[1..n -> RecordPool(pk, ch)] : n \in 0..MaxRecords}

---------------------------------------------------------------------------
(* add_uniqueness_context *)

\* dict[key] = value and dict.pop(key) on an element record
Put(d, key, value) == [k \in DOMAIN d \cup {key} |-> IF k = key THEN value ELSE d[k]]

Pop(d, key) == [k \in DOMAIN d \ {key} |-> d[k]]

\* The position in the list that a record's tracker names (the tracker is 0-based).
OriginalIdx(element) == element["_original_index"][2] + 1

\* The distinct elements of a sequence, in the order of their first occurrence:
\* the key order of a dict filled in that order.
RECURSIVE KeysInOrder(_)
KeysInOrder(values) ==
    IF Len(values) = 0 THEN <<>>
    ELSE LET init == KeysInOrder(SubSeq(values, 1, Len(values) - 1))
             last == values[Len(values)]
         IN  IF \E i \in 1..Len(init) : init[i] = last THEN init ELSE Append(init, last)

\* defaultdict(list) filled by one pass over members, values[i] being the key
\* of members[i]: the lists, in the order of their keys.
GroupByValues(members, values) ==
    LET RECURSIVE Pick(_, _, _)
        Pick(key, vals, i) ==
            IF i > Len(vals) THEN <<>>
            ELSE IF vals[i] = key THEN <<members[i]>> \o Pick(key, vals, i + 1)
            ELSE Pick(key, vals, i + 1)
    IN  CHOOSE groups \in
            UNION {{[k \in 1..Len(keys) |->
                        [value |-> keys[k], group |-> Pick(keys[k], vals, 1)]] :
                       keys \in {KeysInOrder(vals)}} : vals \in {values}} : TRUE

\* The grouping by get_nested_value of key_path.
GroupBy(members, key_path) ==
    GroupByValues(members,
                  [i \in 1..Len(members) |-> get_nested_value(members[i], key_path)])

\* ContextFor with the substitution applied whatever the primary key is.
ContextForAnyPrimary(resolved_element, context_level_key, context_value, pk) ==
    IF context_level_key = <<"id">>
    THEN LET href == get_nested_value(resolved_element, <<"href">>)
         IN  IF Truthy(href)
             THEN Dict([level |-> Str(<<"href">>), value |-> href])
             ELSE Dict([level |-> PathStr(context_level_key), value |-> context_value])
    ELSE Dict([level |-> PathStr(context_level_key), value |-> context_value])

\* ContextFor substituting whenever the record has an href-derived value, an
\* empty one included.
ContextForAnyHref(resolved_element, context_level_key, context_value, pk) ==
    IF context_level_key = <<"id">> /\ pk = <<"text">>
    THEN LET href == get_nested_value(resolved_element, <<"href">>)
         IN  IF href # None
             THEN Dict([level |-> Str(<<"href">>), value |-> href])
             ELSE Dict([level |-> PathStr(context_level_key), value |-> context_value])
    ELSE Dict([level |-> PathStr(context_level_key), value |-> context_value])

\* The uniqueness_context a resolved element is given at a level (lines 941-959).
ContextFor(resolved_element, context_level_key, context_value, pk) ==
    IF context_level_key = <<"id">> /\ pk = <<"text">>
    THEN LET href == get_nested_value(resolved_element, <<"href">>)
         IN  IF Truthy(href)
             THEN Dict([level |-> Str(<<"href">>), value |-> href])
             ELSE Dict([level |-> PathStr(context_level_key), value |-> context_value])
    ELSE Dict([level |-> PathStr(context_level_key), value |-> context_value])

\* Resolve testing the value for truth instead of comparing it with None.
ResolveIfTruthy(resolved_element, context_level_key, context_value, pk) ==
    Pop(IF Truthy(context_value)
        THEN Put(resolved_element, "uniqueness_context",
                 ContextFor(resolved_element, context_level_key, context_value, pk))
        ELSE resolved_element,
        "_original_index")

\* Resolve annotating with the name of the level and no value.
ResolveLevelOnly(resolved_element, context_level_key, context_value, pk) ==
    Pop(IF context_value # None
        THEN Put(resolved_element, "uniqueness_context",
                 Dict([level |-> PathStr(context_level_key), value |-> None]))
        ELSE resolved_element,
        "_original_index")

\* Resolve annotating with the primary value instead of the value of the level.
ResolveWithPrimaryValue(resolved_element, context_level_key, context_value, pk) ==
    Pop(IF context_value # None
        THEN Put(resolved_element, "uniqueness_context",
                 Dict([level |-> PathStr(context_level_key),
                       value |-> get_nested_value(resolved_element, pk)]))
        ELSE resolved_element,
        "_original_index")

\* The element as it is stored when its subgroup at a level has size 1.
Resolve(resolved_element, context_level_key, context_value, pk) ==
    Pop(IF context_value # None
        THEN Put(resolved_element, "uniqueness_context",
                 ContextFor(resolved_element, context_level_key, context_value, pk))
        ELSE resolved_element,
        "_original_index")

\* initial_groups: the groups by primary value; a group holds references to the
\* caller's records, here their positions in the list.
InitialGroups(tracked, pk) ==
    LET groups == GroupBy(tracked, pk)
    IN  [k \in 1..Len(groups) |->
            [i \in 1..Len(groups[k].group) |-> OriginalIdx(groups[k].group[i])]]

\* Lines 894-905: the tracker is written into the caller's records, the records
\* are grouped by their primary value and the result list is prepared.
Start ==
    /\ pc = "start"
    /\ LET tracked == [i \in 1..Len(elements_data) |->
                          Put(elements_data[i], "_original_index", Num(i - 1))]
       IN  /\ elements_data' = tracked
           /\ IF \E i \in 1..Len(tracked) :
                     ~Hashable(get_nested_value(tracked[i], primary_key))
              THEN \* line 903 raises TypeError: unhashable type
                   /\ pc' = "raised"
                   /\ UNCHANGED <<initial_groups, processed_elements_data>>
              ELSE /\ pc' = "group"
                   /\ initial_groups' = InitialGroups(tracked, primary_key)
                   /\ processed_elements_data' = [i \in 1..Len(elements_data) |-> <<>>]
    /\ gi' = 1
    /\ ambiguous_subgroup' = <<>>
    /\ li' = 1
    /\ UNCHANGED <<call, primary_key, context_hierarchy, input0, resolved_in_this_group,
                   final_data, first_result>>
    /\ UNCHANGED <<extractorVars, contextVars, formVars>>

\* Singleton storing the record without removing the tracker.
SingletonKeepsTracker ==
    /\ pc = "group"
    /\ gi <= Len(initial_groups)
    /\ Len(initial_groups[gi]) = 1
    /\ LET original_idx == OriginalIdx(elements_data[initial_groups[gi][1]])
       IN  processed_elements_data' =
               [processed_elements_data EXCEPT ![original_idx] =
                                                   <<elements_data[original_idx]>>]
    /\ gi' = gi + 1
    /\ UNCHANGED <<pc, call, elements_data, primary_key, context_hierarchy, input0,
                   initial_groups, ambiguous_subgroup, li, resolved_in_this_group,
                   final_data, first_result>>
    /\ UNCHANGED <<extractorVars, contextVars, formVars>>

\* Lines 909-914: a group of one record; the record stored is the caller's own.
Singleton ==
    /\ pc = "group"
    /\ gi <= Len(initial_groups)
    /\ Len(initial_groups[gi]) = 1
    /\ LET original_idx == OriginalIdx(elements_data[initial_groups[gi][1]])
           element == Pop(elements_data[original_idx], "_original_index")
       IN  /\ elements_data' = [elements_data EXCEPT ![original_idx] = element]
           /\ processed_elements_data' =
                  [processed_elements_data EXCEPT ![original_idx] = <<element>>]
    /\ gi' = gi + 1
    /\ UNCHANGED <<pc, call, primary_key, context_hierarchy, input0, initial_groups,
                   ambiguous_subgroup, li, resolved_in_this_group, final_data, first_result>>
    /\ UNCHANGED <<extractorVars, contextVars, formVars>>

\* BeginAmbiguous with the set of resolved indices outliving the group and the call.
BeginAmbiguousKeepsResolved ==
    /\ pc = "group"
    /\ gi <= Len(initial_groups)
    /\ Len(initial_groups[gi]) # 1
    /\ ambiguous_subgroup' = [k \in 1..Len(initial_groups[gi]) |->
                                 elements_data[initial_groups[gi][k]]]
    /\ li' = 1
    /\ pc' = "level"
    /\ UNCHANGED <<call, elements_data, primary_key, context_hierarchy, input0,
                   initial_groups, gi, resolved_in_this_group, processed_elements_data,
                   final_data, first_result>>
    /\ UNCHANGED <<extractorVars, contextVars, formVars>>

\* Lines 916-918: an ambiguous group is deep-copied.
BeginAmbiguous ==
    /\ pc = "group"
    /\ gi <= Len(initial_groups)
    /\ Len(initial_groups[gi]) # 1
    /\ ambiguous_subgroup' = [k \in 1..Len(initial_groups[gi]) |->
                                 elements_data[initial_groups[gi][k]]]
    /\ resolved_in_this_group' = {}
    /\ li' = 1
    /\ pc' = "level"
    /\ UNCHANGED <<call, elements_data, primary_key, context_hierarchy, input0,
                   initial_groups, gi, processed_elements_data, final_data, first_result>>
    /\ UNCHANGED <<extractorVars, contextVars, formVars>>

\* SubgroupsAt keyed by `value or None`: the empty string falls in with None.
SubgroupsAtFalsy(ambiguous, context_level_key) ==
    GroupByValues(ambiguous,
                  [i \in 1..Len(ambiguous) |->
                      PyOr(get_nested_value(ambiguous[i], context_level_key), None)])

\* SubgroupsAt dividing the subgroups of the level 'id' instead of the whole
\* ambiguous list.
SubgroupsAtWithinId(ambiguous, context_level_key) ==
    GroupByValues(ambiguous,
                  [i \in 1..Len(ambiguous) |->
                      IF context_level_key = <<"id">>
                      THEN get_nested_value(ambiguous[i], context_level_key)
                      ELSE get_nested_value(ambiguous[i], <<"id">>)
                           \o get_nested_value(ambiguous[i], context_level_key)])

\* The subgroups of the still ambiguous records at a level, in key order.
SubgroupsAt(ambiguous, context_level_key) == GroupBy(ambiguous, context_level_key)

\* CarryOver taking along a record that is alone in lacking a value.
RECURSIVE CarryOverLacking(_)
CarryOverLacking(subgroups) ==
    IF Len(subgroups) = 0 THEN <<>>
    ELSE (IF Len(Head(subgroups).group) = 1 /\ Head(subgroups).value # None
          THEN <<>> ELSE Head(subgroups).group)
         \o CarryOverLacking(Tail(subgroups))

\* CarryOver taking along the records that the level has just resolved too.
RECURSIVE CarryOverResolved(_)
CarryOverResolved(subgroups) ==
    IF Len(subgroups) = 0 THEN <<>>
    ELSE Head(subgroups).group \o CarryOverResolved(Tail(subgroups))

\* elements_still_ambiguous_next: the subgroups of more than one record, in order.
RECURSIVE CarryOver(_)
CarryOver(subgroups) ==
    IF Len(subgroups) = 0 THEN <<>>
    ELSE (IF Len(Head(subgroups).group) = 1 THEN <<>> ELSE Head(subgroups).group)
         \o CarryOver(Tail(subgroups))

\* ProcessLevel resolving the caller's own records, not deep copies of them.
ProcessLevelInPlace ==
    /\ pc = "level"
    /\ li <= Len(context_hierarchy)
    /\ ambiguous_subgroup # <<>>
    /\ LET context_level_key == context_hierarchy[li]
           subgroups_at_this_level == SubgroupsAt(ambiguous_subgroup, context_level_key)
           singles == {k \in 1..Len(subgroups_at_this_level) :
                          /\ Len(subgroups_at_this_level[k].group) = 1
                          /\ \A e \in resolved_in_this_group :
                                e[1] # OriginalIdx(subgroups_at_this_level[k].group[1])}
           slot(i) == {k \in singles :
                          OriginalIdx(subgroups_at_this_level[k].group[1]) = i}
       IN  IF \E k \in 1..Len(ambiguous_subgroup) :
                 ~Hashable(get_nested_value(ambiguous_subgroup[k], context_level_key))
           THEN \* line 931 raises TypeError: unhashable type
                /\ pc' = "raised"
                /\ UNCHANGED <<processed_elements_data, resolved_in_this_group,
                               ambiguous_subgroup, li>>
           ELSE /\ processed_elements_data' =
                       [i \in 1..Len(processed_elements_data) |->
                           IF slot(i) = {} THEN processed_elements_data[i]
                           ELSE LET k == CHOOSE k \in slot(i) : TRUE
                                IN  <<Resolve(subgroups_at_this_level[k].group[1],
                                              context_level_key,
                                              subgroups_at_this_level[k].value,
                                              primary_key)>>]
                /\ resolved_in_this_group' = resolved_in_this_group \cup
                       {<<OriginalIdx(subgroups_at_this_level[k].group[1]),
                          context_level_key>> : k \in singles}
                /\ ambiguous_subgroup' = CarryOver(subgroups_at_this_level)
                /\ li' = li + 1
                /\ pc' = pc
    /\ IF pc' = "raised" THEN UNCHANGED elements_data
       ELSE elements_data' =
                [i \in 1..Len(elements_data) |->
                    IF processed_elements_data'[i] # processed_elements_data[i]
                    THEN processed_elements_data'[i][1] ELSE elements_data[i]]
    /\ UNCHANGED <<call, primary_key, context_hierarchy, input0,
                   initial_groups, gi, final_data, first_result>>
    /\ UNCHANGED <<extractorVars, contextVars, formVars>>

\* Lines 920-969: one iteration of the loop over the context levels.
ProcessLevel ==
    /\ pc = "level"
    /\ li <= Len(context_hierarchy)
    /\ ambiguous_subgroup # <<>>
    /\ LET context_level_key == context_hierarchy[li]
           subgroups_at_this_level == SubgroupsAt(ambiguous_subgroup, context_level_key)
           singles == {k \in 1..Len(subgroups_at_this_level) :
                          /\ Len(subgroups_at_this_level[k].group) = 1
                          /\ \A e \in resolved_in_this_group :
                                e[1] # OriginalIdx(subgroups_at_this_level[k].group[1])}
           slot(i) == {k \in singles :
                          OriginalIdx(subgroups_at_this_level[k].group[1]) = i}
       IN  IF \E k \in 1..Len(ambiguous_subgroup) :
                 ~Hashable(get_nested_value(ambiguous_subgroup[k], context_level_key))
           THEN \* line 931 raises TypeError: unhashable type
                /\ pc' = "raised"
                /\ UNCHANGED <<processed_elements_data, resolved_in_this_group,
                               ambiguous_subgroup, li>>
           ELSE /\ processed_elements_data' =
                       [i \in 1..Len(processed_elements_data) |->
                           IF slot(i) = {} THEN processed_elements_data[i]
                           ELSE LET k == CHOOSE k \in slot(i) : TRUE
                                IN  <<Resolve(subgroups_at_this_level[k].group[1],
                                              context_level_key,
                                              subgroups_at_this_level[k].value,
                                              primary_key)>>]
                /\ resolved_in_this_group' = resolved_in_this_group \cup
                       {<<OriginalIdx(subgroups_at_this_level[k].group[1]),
                          context_level_key>> : k \in singles}
                /\ ambiguous_subgroup' = CarryOver(subgroups_at_this_level)
                /\ li' = li + 1
                /\ pc' = pc
    /\ UNCHANGED <<call, elements_data, primary_key, context_hierarchy, input0,
                   initial_groups, gi, final_data, first_result>>
    /\ UNCHANGED <<extractorVars, contextVars, formVars>>

\* FinishGroup storing the records still ambiguous with their tracker.
FinishGroupKeepsTracker ==
    /\ pc = "level"
    /\ (li > Len(context_hierarchy) \/ ambiguous_subgroup = <<>>)
    /\ processed_elements_data' =
           [i \in 1..Len(processed_elements_data) |->
               LET rest == {k \in 1..Len(ambiguous_subgroup) :
                               OriginalIdx(ambiguous_subgroup[k]) = i}
               IN  IF rest = {} THEN processed_elements_data[i]
                   ELSE <<ambiguous_subgroup[CHOOSE k \in rest : TRUE]>>]
    /\ ambiguous_subgroup' = <<>>
    /\ gi' = gi + 1
    /\ pc' = "group"
    /\ UNCHANGED <<call, elements_data, primary_key, context_hierarchy, input0,
                   initial_groups, li, resolved_in_this_group, final_data, first_result>>
    /\ UNCHANGED <<extractorVars, contextVars, formVars>>

\* FinishGroup without the loop that stores the records still ambiguous.
FinishGroupDropsRest ==
    /\ pc = "level"
    /\ (li > Len(context_hierarchy) \/ ambiguous_subgroup = <<>>)
    /\ ambiguous_subgroup' = <<>>
    /\ gi' = gi + 1
    /\ pc' = "group"
    /\ UNCHANGED <<call, elements_data, primary_key, context_hierarchy, input0,
                   initial_groups, li, resolved_in_this_group, processed_elements_data,
                   final_data, first_result>>
    /\ UNCHANGED <<extractorVars, contextVars, formVars>>

\* FinishGroup waiting for the last level although no record is left.
FinishGroupAfterAllLevels ==
    /\ pc = "level"
    /\ li > Len(context_hierarchy)
    /\ processed_elements_data' =
           [i \in 1..Len(processed_elements_data) |->
               LET rest == {k \in 1..Len(ambiguous_subgroup) :
                               OriginalIdx(ambiguous_subgroup[k]) = i}
               IN  IF rest = {} THEN processed_elements_data[i]
                   ELSE <<Pop(ambiguous_subgroup[CHOOSE k \in rest : TRUE],
                              "_original_index")>>]
    /\ ambiguous_subgroup' = <<>>
    /\ gi' = gi + 1
    /\ pc' = "group"
    /\ UNCHANGED <<call, elements_data, primary_key, context_hierarchy, input0,
                   initial_groups, li, resolved_in_this_group, final_data, first_result>>
    /\ UNCHANGED <<extractorVars, contextVars, formVars>>

\* Lines 921-922 and 971-975: the loop over the levels ends, and the records
\* still ambiguous are stored without uniqueness_context.
FinishGroup ==
    /\ pc = "level"
    /\ (li > Len(context_hierarchy) \/ ambiguous_subgroup = <<>>)
    /\ processed_elements_data' =
           [i \in 1..Len(processed_elements_data) |->
               LET rest == {k \in 1..Len(ambiguous_subgroup) :
                               OriginalIdx(ambiguous_subgroup[k]) = i}
               IN  IF rest = {} THEN processed_elements_data[i]
                   ELSE <<Pop(ambiguous_subgroup[CHOOSE k \in rest : TRUE],
                              "_original_index")>>]
    /\ ambiguous_subgroup' = <<>>
    /\ gi' = gi + 1
    /\ pc' = "group"
    /\ UNCHANGED <<call, elements_data, primary_key, context_hierarchy, input0,
                   initial_groups, li, resolved_in_this_group, final_data, first_result>>
    /\ UNCHANGED <<extractorVars, contextVars, formVars>>

\* Lines 977-979: the empty slots are dropped and the list is returned.
RECURSIVE Compact(_)
Compact(slots) ==
    IF Len(slots) = 0 THEN <<>> ELSE Head(slots) \o Compact(Tail(slots))

Return ==
    /\ pc = "group"
    /\ gi > Len(initial_groups)
    /\ final_data' = Compact(processed_elements_data)
    /\ pc' = "done"
    /\ UNCHANGED <<call, elements_data, primary_key, context_hierarchy, input0,
                   initial_groups, gi, ambiguous_subgroup, li, resolved_in_this_group,
                   processed_elements_data, first_result>>
    /\ UNCHANGED <<extractorVars, contextVars, formVars>>

\* The caller resolves the same list again, with the same key and hierarchy:
\* the records are as the first call left them.
CallAgain ==
    /\ pc = "done"
    /\ call = 1
    /\ call' = 2
    /\ first_result' = final_data
    /\ final_data' = <<>>
    /\ pc' = "start"
    /\ UNCHANGED <<elements_data, primary_key, context_hierarchy, input0, initial_groups,
                   gi, ambiguous_subgroup, li, resolved_in_this_group,
                   processed_elements_data>>
    /\ UNCHANGED <<extractorVars, contextVars, formVars>>

\* The caller resolves an equal copy of the records it passed to the first call.
CallAgainWithCopy ==
    /\ pc = "done"
    /\ call = 1
    /\ call' = 2
    /\ elements_data' = input0
    /\ first_result' = final_data
    /\ final_data' = <<>>
    /\ pc' = "start"
    /\ UNCHANGED <<primary_key, context_hierarchy, input0, initial_groups,
                   gi, ambiguous_subgroup, li, resolved_in_this_group,
                   processed_elements_data>>
    /\ UNCHANGED <<extractorVars, contextVars, formVars>>

Init ==
    /\ pc = "start"
    /\ call = 1
    /\ \E pk \in PrimaryKeys, ch \in Hierarchies :
          /\ primary_key = pk
          /\ context_hierarchy = ch
          /\ elements_data \in RecordLists(pk, ch)
          /\ input0 = elements_data
    /\ initial_groups = <<>>
    /\ gi = 1
    /\ ambiguous_subgroup = <<>>
    /\ li = 1
    /\ resolved_in_this_group = {}
    /\ processed_elements_data = <<>>
    /\ final_data = <<>>
    /\ first_result = <<>>
    /\ html_content = <<>>
    /\ max_elements = 0
    /\ stage = "none"
    /\ cursor = 0
    /\ element_count = 0
    /\ elements = <<>>
    /\ result = <<>>
    /\ dom = <<>>
    /\ current = 0
    /\ dom_context = <<>>
    /\ form = <<>>
    /\ form_identifier = None
    /\ identifier_found = FALSE

Next ==
    \/ Start
    \/ Singleton
    \/ BeginAmbiguous
    \/ ProcessLevel
    \/ FinishGroup
    \/ Return

Spec == Init /\ [][Next]_vars

\* Calls with keys whose value is no string: a primary key or a level that
\* names the parent mapping, a dotted path that ends at the parent's list of
\* class tokens, and parents that are missing or no mapping.
AnomalousPrimaryKeys == {<<"text">>, <<"parent">>}

AnomalousLevelKeys == {<<"id">>, <<"parent", "id">>, <<"parent", "classes">>}

AnomalousHierarchies ==
    {h \in UNION {[1..n -> AnomalousLevelKeys] : n \in 0..MaxLevels} :
        \A i, j \in 1..Len(h) : i # j => h[i] # h[j]}

AnomalousRecords ==
    {[text |-> text, id |-> id, parent |-> parent] :
        text \in {None, Str(<<"t">>)},
        id \in {None, Str(<<"a">>)},
        parent \in {None, Str(<<"x">>), ParentInfo(Str(<<"m">>))}}

InitAnomalous ==
    /\ pc = "start"
    /\ call = 1
    /\ primary_key \in AnomalousPrimaryKeys
    /\ context_hierarchy \in AnomalousHierarchies
    /\ elements_data \in UNION {[1..n -> AnomalousRecords] : n \in 0..MaxRecords}
    /\ input0 = elements_data
    /\ initial_groups = <<>>
    /\ gi = 1
    /\ ambiguous_subgroup = <<>>
    /\ li = 1
    /\ resolved_in_this_group = {}
    /\ processed_elements_data = <<>>
    /\ final_data = <<>>
    /\ first_result = <<>>
    /\ html_content = <<>>
    /\ max_elements = 0
    /\ stage = "none"
    /\ cursor = 0
    /\ element_count = 0
    /\ elements = <<>>
    /\ result = <<>>
    /\ dom = <<>>
    /\ current = 0
    /\ dom_context = <<>>
    /\ form = <<>>
    /\ form_identifier = None
    /\ identifier_found = FALSE

SpecAnomalous == InitAnomalous /\ [][Next]_vars

\* Calls on link-like records: the hrefs are missing, empty, a bare host and a
\* path, and the ids are missing, empty and two different ones.
LinkPrimaryKeys == {<<"text">>, <<"alt">>}

LinkHierarchies ==
    {<<>>, <<<<"id">>>>, <<<<"href">>>>, <<<<"id">>, <<"href">>>>, <<<<"href">>, <<"id">>>>}

LinkHrefs ==
    {Absent, Str(<<>>), Str(<<"h", ":", "/", "/", "x", "/">>),
     Str(<<"h", ":", "/", "/", "x", "/", "p", "/">>)}

LinkRecords(pk) ==
    {MakeRecord(IF pk = <<"text">> THEN Str(<<"t">>) ELSE Absent,
                IF pk = <<"alt">> THEN Str(<<"t">>) ELSE Absent,
                id, href, Absent, Absent) :
        id \in {None, Str(<<>>), Str(<<"a">>), Str(<<"b">>)}, href \in LinkHrefs}

InitLinks ==
    /\ pc = "start"
    /\ call = 1
    /\ primary_key \in LinkPrimaryKeys
    /\ context_hierarchy \in LinkHierarchies
    /\ elements_data \in UNION {[1..n -> LinkRecords(primary_key)] : n \in 0..MaxRecords}
    /\ input0 = elements_data
    /\ initial_groups = <<>>
    /\ gi = 1
    /\ ambiguous_subgroup = <<>>
    /\ li = 1
    /\ resolved_in_this_group = {}
    /\ processed_elements_data = <<>>
    /\ final_data = <<>>
    /\ first_result = <<>>
    /\ html_content = <<>>
    /\ max_elements = 0
    /\ stage = "none"
    /\ cursor = 0
    /\ element_count = 0
    /\ elements = <<>>
    /\ result = <<>>
    /\ dom = <<>>
    /\ current = 0
    /\ dom_context = <<>>
    /\ form = <<>>
    /\ form_identifier = None
    /\ identifier_found = FALSE

SpecLinks == InitLinks /\ [][Next]_vars

\* Calls on records whose href is built from a scheme and host, a path and a
\* query string, each of them present or not.
HrefOrigins == {<<>>, <<"h", ":", "/", "/", "x">>}

HrefPaths == {<<>>, <<"/">>, <<"/", "p">>, <<"/", "p", "/">>}

HrefQueries == {<<>>, <<"?", "q">>}

HrefStrings == {o \o p \o q : o \in HrefOrigins, p \in HrefPaths, q \in HrefQueries}

HrefRecords ==
    {MakeRecord(text, Absent, None, href, Absent, Absent) :
        text \in {Str(<<"t">>), Str(<<"u">>)},
        href \in {Absent} \cup {Str(h) : h \in HrefStrings}}

InitHrefs ==
    /\ pc = "start"
    /\ call = 1
    /\ primary_key = <<"text">>
    /\ context_hierarchy \in {<<>>, <<<<"href">>>>}
    /\ elements_data \in UNION {[1..n -> HrefRecords] : n \in 0..2}
    /\ input0 = elements_data
    /\ initial_groups = <<>>
    /\ gi = 1
    /\ ambiguous_subgroup = <<>>
    /\ li = 1
    /\ resolved_in_this_group = {}
    /\ processed_elements_data = <<>>
    /\ final_data = <<>>
    /\ first_result = <<>>
    /\ html_content = <<>>
    /\ max_elements = 0
    /\ stage = "none"
    /\ cursor = 0
    /\ element_count = 0
    /\ elements = <<>>
    /\ result = <<>>
    /\ dom = <<>>
    /\ current = 0
    /\ dom_context = <<>>
    /\ form = <<>>
    /\ form_identifier = None
    /\ identifier_found = FALSE

SpecHrefs == InitHrefs /\ [][Next]_vars

\* The call the application makes for the links: the records are the ones
\* the link loop of parse_html_for_elements appends, which keep what was read
\* from the a element under dom_context.element.
link_context_hierarchy ==
    <<(<<"id">>), <<"aria_label">>, <<"text">>, <<"href">>, <<"parent", "id">>,
      <<"parent_classes">>, <<"sibling_text">>, <<"classes">>>>

ExtractedLink(link_id, text, href) ==
    [dom_context |->
         Dict([element |-> Dict([tag |-> Str(<<"a">>), classes |-> List(<<>>),
                                 id |-> link_id, aria_label |-> None,
                                 text |-> text, href |-> href]),
               parent |-> None]),
     is_external_link |-> Bool(FALSE),
     external_link_popup |-> Bool(FALSE)]

ExtractedLinks ==
    {ExtractedLink(link_id, Str(text), Str(href)) :
        link_id \in {None, Str(<<"a">>), Str(<<"b">>)},
        text \in {<<"t">>, <<"u">>},
        href \in {<<"/", "p">>, <<"/", "r">>}}

InitAppLinks ==
    /\ pc = "start"
    /\ call = 1
    /\ primary_key = <<"text">>
    /\ context_hierarchy = link_context_hierarchy
    /\ elements_data \in UNION {[1..n -> ExtractedLinks] : n \in 0..MaxRecords}
    /\ input0 = elements_data
    /\ initial_groups = <<>>
    /\ gi = 1
    /\ ambiguous_subgroup = <<>>
    /\ li = 1
    /\ resolved_in_this_group = {}
    /\ processed_elements_data = <<>>
    /\ final_data = <<>>
    /\ first_result = <<>>
    /\ html_content = <<>>
    /\ max_elements = 0
    /\ stage = "none"
    /\ cursor = 0
    /\ element_count = 0
    /\ elements = <<>>
    /\ result = <<>>
    /\ dom = <<>>
    /\ current = 0
    /\ dom_context = <<>>
    /\ form = <<>>
    /\ form_identifier = None
    /\ identifier_found = FALSE

SpecAppLinks == InitAppLinks /\ [][Next]_vars

\* Calls on up to MaxCrossRecords records that have one of two texts, one
\* of two ids and a parent with one of two ids: two levels can divide a
\* primary group of four crosswise.
CrossRecords ==
    {MakeRecord(Str(text), Absent, Str(id), Absent, ParentInfo(Str(parent_id)), Absent) :
        text \in {<<"t">>, <<"u">>}, id \in {<<"a">>, <<"b">>},
        parent_id \in {<<"m">>, <<"n">>}}

CrossHierarchies ==
    {<<>>, <<(<<"id">>)>>, <<(<<"id">>), <<"parent", "id">>>>, <<(<<"parent", "id">>), <<"id">>>>}

InitCross ==
    /\ pc = "start"
    /\ call = 1
    /\ primary_key = <<"text">>
    /\ context_hierarchy \in CrossHierarchies
    /\ elements_data \in UNION {[1..n -> CrossRecords] : n \in 0..MaxCrossRecords}
    /\ input0 = elements_data
    /\ initial_groups = <<>>
    /\ gi = 1
    /\ ambiguous_subgroup = <<>>
    /\ li = 1
    /\ resolved_in_this_group = {}
    /\ processed_elements_data = <<>>
    /\ final_data = <<>>
    /\ first_result = <<>>
    /\ html_content = <<>>
    /\ max_elements = 0
    /\ stage = "none"
    /\ cursor = 0
    /\ element_count = 0
    /\ elements = <<>>
    /\ result = <<>>
    /\ dom = <<>>
    /\ current = 0
    /\ dom_context = <<>>
    /\ form = <<>>
    /\ form_identifier = None
    /\ identifier_found = FALSE

SpecCross == InitCross /\ [][Next]_vars

\* Calls on up to MaxShrinkRecords records of one text, told apart first by
\* id and then by the id of the parent: one primary group that two levels
\* narrow step by step.
ShrinkRecords ==
    {MakeRecord(Str(<<"t">>), Absent, Str(id), Absent, ParentInfo(Str(parent_id)), Absent) :
        id \in {<<"a">>, <<"b">>}, parent_id \in {<<"m">>, <<"n">>}}

InitShrink ==
    /\ pc = "start"
    /\ call = 1
    /\ primary_key = <<"text">>
    /\ context_hierarchy = <<(<<"id">>), <<"parent", "id">>>>
    /\ elements_data \in UNION {[1..n -> ShrinkRecords] : n \in 0..MaxShrinkRecords}
    /\ input0 = elements_data
    /\ initial_groups = <<>>
    /\ gi = 1
    /\ ambiguous_subgroup = <<>>
    /\ li = 1
    /\ resolved_in_this_group = {}
    /\ processed_elements_data = <<>>
    /\ final_data = <<>>
    /\ first_result = <<>>
    /\ html_content = <<>>
    /\ max_elements = 0
    /\ stage = "none"
    /\ cursor = 0
    /\ element_count = 0
    /\ elements = <<>>
    /\ result = <<>>
    /\ dom = <<>>
    /\ current = 0
    /\ dom_context = <<>>
    /\ form = <<>>
    /\ form_identifier = None
    /\ identifier_found = FALSE

SpecShrink == InitShrink /\ [][Next]_vars

\* The loops of the call run on their own: no step waits for anything.
FairSpecShrink == SpecShrink /\ WF_vars(Next)

NextRepeat ==
    \/ Next
    \/ CallAgain
    \/ CallAgainWithCopy

SpecRepeat == Init /\ [][NextRepeat]_vars

---------------------------------------------------------------------------
(* parse_html_for_elements: the fetch sentinel and the element budget *)

\* The markup argument is the text before its first tag and the elements the
\* parser finds in it, in document order.  An element has the kind of the loop
\* that finds it, qualifies when that loop's body appends a record for it, and
\* in_form when it has a form among its ancestors, and has_form when it has a
\* form among its descendants.
Sentinel ==
    <<"E", "r", "r", "o", "r", " ", "f", "e", "t", "c", "h", "i", "n", "g", " ", "U", "R", "L">>

\* The characters of the markup string up to and with the '<' of its first tag.
Chars(html) == html.text \o (IF Len(html.nodes) > 0 THEN <<"<">> ELSE <<>>)

\* s.startswith(prefix)
StartsWith(s, prefix) == Len(s) >= Len(prefix) /\ SubSeq(s, 1, Len(prefix)) = prefix

Categories ==
    {"headings", "paragraphs", "links", "buttons", "inputs", "images_and_logos",
     "icons", "forms", "semantic_elements"}

semantic_tags == <<"header", "footer", "nav", "main", "section", "article", "aside">>

Node(kind, qualifies, in_form, has_form) ==
    [kind |-> kind, qualifies |-> qualifies, in_form |-> in_form, has_form |-> has_form]

Nodes ==
    {Node(kind, qualifies, FALSE, FALSE) :
        kind \in {"h", "p", "a", "img", "i", "svg", "form"}, qualifies \in BOOLEAN}
    \cup {Node("button", qualifies, in_form, has_form) :
             qualifies \in BOOLEAN, in_form \in BOOLEAN, has_form \in BOOLEAN}
    \cup {Node(kind, TRUE, FALSE, FALSE) : kind \in {"nav", "main"}}

Pages(n) == UNION {[1..m -> Nodes] : m \in 0..n}

Texts ==
    {Sentinel,
     Sentinel \o <<":", " ", "t", "i", "m", "e", "o", "u", "t">>,
     SubSeq(Sentinel, 1, Len(Sentinel) - 1),
     <<" ">> \o Sentinel}

\* The markup strings: pages without leading text, and the texts before a
\* page of at most one element.
HtmlInputs ==
    {[text |-> <<>>, nodes |-> nodes] : nodes \in Pages(MaxNodes)}
    \cup {[text |-> text, nodes |-> nodes] : text \in Texts, nodes \in Pages(1)}

Budgets == 0..MaxBudget

\* soup.find_all of the elements of some kinds: their positions, in document order.
find_all(html, kinds) ==
    LET found == {i \in 1..Len(html.nodes) : html.nodes[i].kind \in kinds}
    IN  [k \in 1..Cardinality(found) |->
            CHOOSE i \in found : Cardinality({j \in found : j < i}) = k - 1]

\* {k: v for k, v in elements.items() if v}
NonEmpty(categories) ==
    [k \in {c \in DOMAIN categories : categories[c] # <<>>} |-> categories[k]]

\* A record of a category that numbers its records, and one of a category that
\* does not; the index counter of a category is the number of its records.
Indexed(categories, category, node) ==
    [node |-> node, sequential_index |-> Len(categories[category])]

Plain(node) == [node |-> node]

\* elements[category].append(record); element_count += 1
Append1(category, record) ==
    /\ elements' = [elements EXCEPT ![category] = Append(@, record)]
    /\ element_count' = element_count + 1

\* The top of an iteration: the loop has an element left and budget left.
Iterating(st, found) ==
    /\ stage = st
    /\ cursor <= Len(found)
    /\ element_count < max_elements

\* The loop is left: its elements are exhausted or the budget check breaks it.
Leaving(st, found) ==
    /\ stage = st
    /\ (cursor > Len(found) \/ element_count >= max_elements)

\* ReturnOrGoOn returning the categories as they are, the empty ones too.
ReturnOrGoOnUnfiltered(next_stage) ==
    IF element_count >= max_elements
    THEN /\ result' = elements
         /\ stage' = "returned"
         /\ cursor' = 0
    ELSE /\ stage' = next_stage
         /\ cursor' = 1
         /\ UNCHANGED result

\* The check that follows a loop: return the non-empty categories when the
\* budget is used up, go on with the next loop otherwise.
ReturnOrGoOn(next_stage) ==
    IF element_count >= max_elements
    THEN /\ result' = NonEmpty(elements)
         /\ stage' = "returned"
         /\ cursor' = 0
    ELSE /\ stage' = next_stage
         /\ cursor' = 1
         /\ UNCHANGED result

\* CheckSentinel comparing the whole string with the sentinel.
CheckSentinelExact ==
    /\ stage = "entry"
    /\ IF Chars(html_content) = Sentinel
       THEN /\ result' = [error |-> html_content]
            /\ stage' = "returned"
            /\ UNCHANGED <<cursor, element_count, elements>>
       ELSE /\ elements' = [c \in Categories |-> <<>>]
            /\ element_count' = 0
            /\ stage' = "headings"
            /\ cursor' = 1
            /\ UNCHANGED result
    /\ UNCHANGED <<pc, html_content, max_elements>>
    /\ UNCHANGED <<resolverVars, contextVars, formVars>>

\* Lines 77-100: the sentinel check, and the empty categories and the count.
CheckSentinel ==
    /\ stage = "entry"
    /\ IF StartsWith(Chars(html_content), Sentinel)
       THEN /\ result' = [error |-> html_content]
            /\ stage' = "returned"
            /\ UNCHANGED <<cursor, element_count, elements>>
       ELSE /\ elements' = [c \in Categories |-> <<>>]
            /\ element_count' = 0
            /\ stage' = "headings"
            /\ cursor' = 1
            /\ UNCHANGED result
    /\ UNCHANGED <<pc, html_content, max_elements>>
    /\ UNCHANGED <<resolverVars, contextVars, formVars>>

\* One iteration of a loop that appends to a category a record for the
\* element under the cursor when it qualifies; indexed tells whether the
\* records of the category are numbered.
Iteration(st, kinds, category, indexed) ==
    LET found == find_all(html_content, kinds)
    IN  /\ Iterating(st, found)
        /\ IF html_content.nodes[found[cursor]].qualifies
           THEN Append1(category, IF indexed
                                  THEN Indexed(elements, category, found[cursor])
                                  ELSE Plain(found[cursor]))
           ELSE UNCHANGED <<elements, element_count>>
        /\ cursor' = cursor + 1
        /\ UNCHANGED <<stage, result, pc, html_content, max_elements>>
        /\ UNCHANGED <<resolverVars, contextVars, formVars>>

\* Lines 111-211: headings.
HeadingStep ==
    Iteration("headings", {"h"}, "headings", TRUE)

\* The headings loop is left; the paragraphs loop follows without a check.
HeadingsEnd ==
    /\ Leaving("headings", find_all(html_content, {"h"}))
    /\ stage' = "paragraphs"
    /\ cursor' = 1
    /\ UNCHANGED <<element_count, elements, result, pc, html_content, max_elements>>
    /\ UNCHANGED <<resolverVars, contextVars, formVars>>

\* ParagraphStep without the budget check at the top of the iteration.
ParagraphStepUnchecked ==
    LET found == find_all(html_content, {"p"})
    IN  /\ stage = "paragraphs"
        /\ cursor <= Len(found)
        /\ IF html_content.nodes[found[cursor]].qualifies
           THEN Append1("paragraphs", Indexed(elements, "paragraphs", found[cursor]))
           ELSE UNCHANGED <<elements, element_count>>
        /\ cursor' = cursor + 1
        /\ UNCHANGED <<stage, result, pc, html_content, max_elements>>
        /\ UNCHANGED <<resolverVars, contextVars, formVars>>

\* Lines 215-285: paragraphs.
ParagraphStep ==
    Iteration("paragraphs", {"p"}, "paragraphs", TRUE)

\* Line 287.
ParagraphsEnd ==
    /\ Leaving("paragraphs", find_all(html_content, {"p"}))
    /\ ReturnOrGoOn("links")
    /\ UNCHANGED <<element_count, elements>>
    /\ UNCHANGED <<pc, html_content, max_elements>>
    /\ UNCHANGED <<resolverVars, contextVars, formVars>>

\* Lines 307-409: links; a link record has no sequential_index.
LinkStep ==
    Iteration("links", {"a"}, "links", FALSE)

\* Line 411.
LinksEnd ==
    /\ Leaving("links", find_all(html_content, {"a"}))
    /\ ReturnOrGoOn("buttons")
    /\ UNCHANGED <<element_count, elements>>
    /\ UNCHANGED <<pc, html_content, max_elements>>
    /\ UNCHANGED <<resolverVars, contextVars, formVars>>

\* ButtonStep counting a button it skips as an element.
ButtonStepCountsSkipped ==
    LET found == find_all(html_content, {"button"})
    IN  /\ Iterating("buttons", found)
        /\ IF ~html_content.nodes[found[cursor]].has_form
              /\ html_content.nodes[found[cursor]].qualifies
           THEN Append1("buttons", Indexed(elements, "buttons", found[cursor]))
           ELSE /\ element_count' = element_count + 1
                /\ UNCHANGED elements
        /\ cursor' = cursor + 1
        /\ UNCHANGED <<stage, result, pc, html_content, max_elements>>
        /\ UNCHANGED <<resolverVars, contextVars, formVars>>

\* Lines 415-469: buttons.  btn.form is btn.find("form"), the first form among
\* the descendants of the button: a button that has one is skipped.
ButtonStep ==
    LET found == find_all(html_content, {"button"})
    IN  /\ Iterating("buttons", found)
        /\ IF ~html_content.nodes[found[cursor]].has_form
              /\ html_content.nodes[found[cursor]].qualifies
           THEN Append1("buttons", Indexed(elements, "buttons", found[cursor]))
           ELSE UNCHANGED <<elements, element_count>>
        /\ cursor' = cursor + 1
        /\ UNCHANGED <<stage, result, pc, html_content, max_elements>>
        /\ UNCHANGED <<resolverVars, contextVars, formVars>>

\* Line 471.
ButtonsEnd ==
    /\ Leaving("buttons", find_all(html_content, {"button"}))
    /\ ReturnOrGoOn("images")
    /\ UNCHANGED <<element_count, elements>>
    /\ UNCHANGED <<pc, html_content, max_elements>>
    /\ UNCHANGED <<resolverVars, contextVars, formVars>>

\* Lines 475-531: images.
ImageStep ==
    Iteration("images", {"img"}, "images_and_logos", TRUE)

\* Line 533.
ImagesEnd ==
    /\ Leaving("images", find_all(html_content, {"img"}))
    /\ ReturnOrGoOn("icons")
    /\ UNCHANGED <<element_count, elements>>
    /\ UNCHANGED <<pc, html_content, max_elements>>
    /\ UNCHANGED <<resolverVars, contextVars, formVars>>

\* Lines 537-576: the i and span elements; the loop is also left right after an
\* append that uses up the budget.
IconStep ==
    LET found == find_all(html_content, {"i"})
    IN  /\ Iterating("icons", found)
        /\ IF html_content.nodes[found[cursor]].qualifies
           THEN /\ Append1("icons", Indexed(elements, "icons", found[cursor]))
                /\ IF element_count + 1 >= max_elements
                   THEN stage' = "svgs" /\ cursor' = 1
                   ELSE stage' = stage /\ cursor' = cursor + 1
           ELSE /\ UNCHANGED <<elements, element_count, stage>>
                /\ cursor' = cursor + 1
        /\ UNCHANGED <<result, pc, html_content, max_elements>>
        /\ UNCHANGED <<resolverVars, contextVars, formVars>>

\* The i and span loop is left; the svg loop follows without a check.
IconsEnd ==
    /\ Leaving("icons", find_all(html_content, {"i"}))
    /\ stage' = "svgs"
    /\ cursor' = 1
    /\ UNCHANGED <<element_count, elements, result, pc, html_content, max_elements>>
    /\ UNCHANGED <<resolverVars, contextVars, formVars>>

\* Lines 579-616: the svg elements, numbered on with the icons; an append that
\* uses up the budget leaves the loop, and line 616 then returns.
SvgStep ==
    LET found == find_all(html_content, {"svg"})
    IN  /\ Iterating("svgs", found)
        /\ IF html_content.nodes[found[cursor]].qualifies
           THEN /\ Append1("icons", Indexed(elements, "icons", found[cursor]))
                /\ IF element_count + 1 >= max_elements
                   THEN /\ result' = NonEmpty(elements')
                        /\ stage' = "returned"
                        /\ cursor' = 0
                   ELSE /\ cursor' = cursor + 1
                        /\ UNCHANGED <<stage, result>>
           ELSE /\ UNCHANGED <<elements, element_count, stage, result>>
                /\ cursor' = cursor + 1
        /\ UNCHANGED <<pc, html_content, max_elements>>
        /\ UNCHANGED <<resolverVars, contextVars, formVars>>

\* Line 616.
SvgsEnd ==
    /\ Leaving("svgs", find_all(html_content, {"svg"}))
    /\ ReturnOrGoOn("forms")
    /\ UNCHANGED <<element_count, elements>>
    /\ UNCHANGED <<pc, html_content, max_elements>>
    /\ UNCHANGED <<resolverVars, contextVars, formVars>>

\* Lines 620-798: forms; a form record has no sequential_index.
FormStep ==
    Iteration("forms", {"form"}, "forms", FALSE)

\* Line 800.
FormsEnd ==
    /\ Leaving("forms", find_all(html_content, {"form"}))
    /\ ReturnOrGoOn("semantic")
    /\ UNCHANGED <<element_count, elements>>
    /\ UNCHANGED <<pc, html_content, max_elements>>
    /\ UNCHANGED <<resolverVars, contextVars, formVars>>

\* Lines 803-808: one record for every semantic tag name the page has.
SemanticStep ==
    /\ Iterating("semantic", semantic_tags)
    /\ LET tag_name == semantic_tags[cursor]
           found_tags == find_all(html_content, {tag_name})
       IN  IF Len(found_tags) > 0
           THEN Append1("semantic_elements",
                        [tag |-> tag_name, count |-> Len(found_tags)])
           ELSE UNCHANGED <<elements, element_count>>
    /\ cursor' = cursor + 1
    /\ UNCHANGED <<stage, result, pc, html_content, max_elements>>
    /\ UNCHANGED <<resolverVars, contextVars, formVars>>

\* Lines 810-816: both the last budget check and the final cleanup return the
\* non-empty categories.
SemanticEnd ==
    /\ Leaving("semantic", semantic_tags)
    /\ result' = NonEmpty(elements)
    /\ stage' = "returned"
    /\ cursor' = 0
    /\ UNCHANGED <<element_count, elements, pc, html_content, max_elements>>
    /\ UNCHANGED <<resolverVars, contextVars, formVars>>

InitParse ==
    /\ pc = "extract"
    /\ call = 1
    /\ elements_data = <<>>
    /\ primary_key = <<>>
    /\ context_hierarchy = <<>>
    /\ input0 = <<>>
    /\ initial_groups = <<>>
    /\ gi = 1
    /\ ambiguous_subgroup = <<>>
    /\ li = 1
    /\ resolved_in_this_group = {}
    /\ processed_elements_data = <<>>
    /\ final_data = <<>>
    /\ first_result = <<>>
    /\ html_content \in HtmlInputs
    /\ max_elements \in Budgets
    /\ stage = "entry"
    /\ cursor = 0
    /\ element_count = 0
    /\ elements = <<>>
    /\ result = <<>>
    /\ dom = <<>>
    /\ current = 0
    /\ dom_context = <<>>
    /\ form = <<>>
    /\ form_identifier = None
    /\ identifier_found = FALSE

NextParse ==
    \/ CheckSentinel
    \/ HeadingStep
    \/ HeadingsEnd
    \/ ParagraphStep
    \/ ParagraphsEnd
    \/ LinkStep
    \/ LinksEnd
    \/ ButtonStep
    \/ ButtonsEnd
    \/ ImageStep
    \/ ImagesEnd
    \/ IconStep
    \/ IconsEnd
    \/ SvgStep
    \/ SvgsEnd
    \/ FormStep
    \/ FormsEnd
    \/ SemanticStep
    \/ SemanticEnd

SpecParse == InitParse /\ [][NextParse]_vars

---------------------------------------------------------------------------
(* parse_html_for_elements: the dom_context of a heading and of a link *)

\* The surroundings of the element: chain holds its ancestors from the parent
\* up to the BeautifulSoup object (named '[document]'), before and after hold
\* the nodes beside it under its parent, in document order.  A node beside it
\* is an element (a Tag) or a piece of text.
AncestorKinds ==
    {[tag |-> "div", role |-> None],
     [tag |-> "ul", role |-> Str(<<"list">>)],
     [tag |-> "a", role |-> None],
     [tag |-> "button", role |-> None],
     [tag |-> "div", role |-> Str(<<"button">>)],
     [tag |-> "li", role |-> Str(<<"tab">>)],
     [tag |-> "span", role |-> Str(<<"menuitem">>)]}

Document == [tag |-> "[document]", role |-> None]

Chains == {c \o <<Document>> : c \in UNION {[1..n -> AncestorKinds] : n \in 0..MaxDepth}}

SiblingLists == UNION {[1..n -> {"Tag", "NavigableString"}] : n \in 0..MaxSiblings}

Doms == {[chain |-> c, before |-> b, after |-> a] :
            c \in Chains, b \in SiblingLists, a \in SiblingLists}

\* node.find_previous_sibling() and node.find_next_sibling() without a filter:
\* the nearest Tag on that side, 0 (None) when there is none.  position is
\* where the walk stands in the list; the element itself stands after the
\* last node of before and ahead of the first node of after.
find_previous_sibling(nodes, position) ==
    LET tags == {q \in 1..(position - 1) : nodes[q] = "Tag"}
    IN  IF tags = {} THEN 0 ELSE CHOOSE q \in tags : \A r \in tags : r <= q

find_next_sibling(nodes, position) ==
    LET tags == {q \in (position + 1)..Len(nodes) : nodes[q] = "Tag"}
    IN  IF tags = {} THEN 0 ELSE CHOOSE q \in tags : \A r \in tags : q <= r

\* What the walk around one element leaves alone.
outsideContext == <<pc, resolverVars, html_content, max_elements, cursor,
                    element_count, elements, result, formVars>>

\* Lines 140-150: the description of an ancestor.
parent_info(ancestor) == [tag |-> ancestor.tag, role |-> ancestor.role]

\* Line 158: the ancestor is interactive.
IsInteractive(ancestor) ==
    \/ ancestor.tag \in {"button", "a"}
    \/ ancestor.role \in {Str(<<"button">>), Str(<<"tab">>), Str(<<"menuitem">>)}

\* AncestorStep looking for interactive elements above the parent only.
AncestorStepAboveParent ==
    /\ stage = "ancestors"
    /\ current <= Len(dom.chain)
    /\ LET info == parent_info(dom.chain[current])
           placed == IF current = 1
                     THEN [dom_context EXCEPT !.parent = info]
                     ELSE [dom_context EXCEPT !.ancestors = Append(@, info)]
       IN  dom_context' =
               IF current # 1 /\ IsInteractive(dom.chain[current])
               THEN [placed EXCEPT !.interactive_parents = Append(@, info)]
               ELSE placed
    /\ current' = current + 1
    /\ UNCHANGED <<stage, dom, outsideContext>>

\* Lines 138-161 (and 336-359): one iteration of the walk up the ancestors.
AncestorStep ==
    /\ stage = "ancestors"
    /\ current <= Len(dom.chain)
    /\ LET info == parent_info(dom.chain[current])
           placed == IF current = 1
                     THEN [dom_context EXCEPT !.parent = info]
                     ELSE [dom_context EXCEPT !.ancestors = Append(@, info)]
       IN  dom_context' =
               IF IsInteractive(dom.chain[current])
               THEN [placed EXCEPT !.interactive_parents = Append(@, info)]
               ELSE placed
    /\ current' = current + 1
    /\ UNCHANGED <<stage, dom, outsideContext>>


\* Line 139 fails, line 164: the walk has passed the BeautifulSoup object, whose
\* parent is None; the first element before the heading is looked up.
AncestorsEnd ==
    /\ stage = "ancestors"
    /\ current > Len(dom.chain)
    /\ stage' = "previous"
    /\ current' = find_previous_sibling(dom.before, Len(dom.before) + 1)
    /\ UNCHANGED <<dom, dom_context, outsideContext>>

\* Lines 167-174: the description of a sibling.  The siblings of the inputs
\* carry their place among the nodes as their id, which tells them apart.
sibling_info(position) == [tag |-> "div", id |-> position]

\* PreviousStep without the limit of three entries of line 165.
PreviousStepUnbounded ==
    /\ stage = "previous"
    /\ current # 0
    /\ dom_context' = [dom_context EXCEPT !.previous = Append(@, sibling_info(current))]
    /\ current' = find_previous_sibling(dom.before, current)
    /\ UNCHANGED <<stage, dom, outsideContext>>

\* Lines 165-176: one iteration of the walk over the elements before.
\* find_previous_sibling returns a Tag, so line 166 holds in every iteration.
PreviousStep ==
    /\ stage = "previous"
    /\ current # 0
    /\ Len(dom_context.previous) < 3
    /\ dom_context' = [dom_context EXCEPT !.previous = Append(@, sibling_info(current))]
    /\ current' = find_previous_sibling(dom.before, current)
    /\ UNCHANGED <<stage, dom, outsideContext>>

\* Line 165 fails, line 178.
PreviousEnd ==
    /\ stage = "previous"
    /\ ~(current # 0 /\ Len(dom_context.previous) < 3)
    /\ stage' = "next"
    /\ current' = find_next_sibling(dom.after, 0)
    /\ UNCHANGED <<dom, dom_context, outsideContext>>

\* Lines 179-190: one iteration of the walk over the elements after.
NextStep ==
    /\ stage = "next"
    /\ current # 0
    /\ Len(dom_context.next) < 3
    /\ dom_context' = [dom_context EXCEPT !.next = Append(@, sibling_info(current))]
    /\ current' = find_next_sibling(dom.after, current)
    /\ UNCHANGED <<stage, dom, outsideContext>>

\* Line 179 fails: the dom_context is complete.
NextEnd ==
    /\ stage = "next"
    /\ ~(current # 0 /\ Len(dom_context.next) < 3)
    /\ stage' = "built"
    /\ UNCHANGED <<current, dom, dom_context, outsideContext>>

InitContext ==
    /\ pc = "extract"
    /\ call = 1
    /\ elements_data = <<>>
    /\ primary_key = <<>>
    /\ context_hierarchy = <<>>
    /\ input0 = <<>>
    /\ initial_groups = <<>>
    /\ gi = 1
    /\ ambiguous_subgroup = <<>>
    /\ li = 1
    /\ resolved_in_this_group = {}
    /\ processed_elements_data = <<>>
    /\ final_data = <<>>
    /\ first_result = <<>>
    /\ html_content = <<>>
    /\ max_elements = 1
    /\ stage = "ancestors"
    /\ cursor = 0
    /\ element_count = 0
    /\ elements = <<>>
    /\ result = <<>>
    /\ dom \in Doms
    /\ current = 1
    /\ dom_context = [parent |-> None, ancestors |-> <<>>, interactive_parents |-> <<>>,
                      previous |-> <<>>, next |-> <<>>]
    /\ form = <<>>
    /\ form_identifier = None
    /\ identifier_found = FALSE

NextContext ==
    \/ AncestorStep
    \/ AncestorsEnd
    \/ PreviousStep
    \/ PreviousEnd
    \/ NextStep
    \/ NextEnd

SpecContext == InitContext /\ [][NextContext]_vars

\* The loops of the walk run on their own: no step waits for anything.
FairSpecContext == SpecContext /\ WF_vars(NextContext)

---------------------------------------------------------------------------
(* parse_html_for_elements: the identifier of a form *)

\* An element of the tree as the rules for the identifier see it: its name
\* and its get_text(strip=True).
Tag(name, text) == <<"Tag", name, text>>

heading_names == {"h1", "h2", "h3", "h4", "h5", "h6"}

login_indicators ==
    {<<"l", "o", "g", "i", "n">>,
     <<"l", "o", "g", " ", "i", "n">>,
     <<"s", "i", "g", "n", "i", "n">>,
     <<"s", "i", "g", "n", " ", "i", "n">>,
     <<"l", "o", "g", "o", "n">>,
     <<"l", "o", "g", " ", "o", "n">>}

\* c.lower() for the letters of the inputs
Lower(c) == IF c = "L" THEN "l" ELSE c

LowerStr(s) == [i \in DOMAIN s |-> Lower(s[i])]

\* str(n) for the form numbers of the inputs
Digits(n) == CASE n = 1 -> "1" [] n = 2 -> "2" [] n = 3 -> "3" [] OTHER -> "n"

\* The forms of the inputs.  The attributes are Python values; legend and
\* internal_heading are what form.find returns, prev_sibling and
\* parent_prev_sibling what find_previous_sibling() returns for the form and
\* for its parent; classes is the list of class tokens, each a sequence of
\* characters; username_field and password_field tell whether form.find finds
\* such an input; form_index is the number of forms recorded before this one.
FormTexts == {None, Str(<<>>), Str(<<"L">>)}

FormIds == {None, Str(<<>>), Str(<<"l", "o", "g", "i", "n">>)}

FormLegends == {None, Tag("legend", <<>>), Tag("legend", <<"G">>)}

FormHeadings == {None, Tag("h2", <<>>), Tag("h2", <<"H">>)}

FormNeighbours == {None, Tag("div", <<"P">>), Tag("h3", <<>>), Tag("h3", <<"P">>)}

FormClasses == {<<>>, <<<<"b", "o", "x">>>>, <<<<"L", "o", "g", "i", "n", "-", "f">>>>}

Forms ==
    [aria_label : FormTexts, id : FormIds, data_di_form_id : {None, Str(<<"d">>)},
     legend : FormLegends, internal_heading : FormHeadings,
     prev_sibling : FormNeighbours, parent_prev_sibling : FormNeighbours,
     parent : {Tag("div", <<>>)}, classes : FormClasses,
     username_field : BOOLEAN, password_field : BOOLEAN, form_index : 0..(MaxForms - 1)]

\* What the rules for the identifier leave alone.
outsideForm == <<pc, resolverVars, html_content, max_elements, cursor,
                 element_count, elements, result, contextVars, form>>

\* Lines 623-631: the aria-label, then the id; neither of them, the other
\* rules are tried.
CheckLabelAndId ==
    /\ stage = "form"
    /\ IF Truthy(form.aria_label)
       THEN /\ form_identifier' = Str(<<"the form labelled '">> \o form.aria_label[2] \o <<"'">>)
            /\ stage' = "form_identified"
       ELSE IF Truthy(form.id)
       THEN /\ form_identifier' = Str(<<"the form with ID '">> \o form.id[2] \o <<"'">>)
            /\ stage' = "form_identified"
       ELSE /\ form_identifier' = None
            /\ stage' = "form_data"
    /\ identifier_found' = FALSE
    /\ UNCHANGED outsideForm

\* Lines 635-639: the attribute data-di-form-id.
CheckDataAttribute ==
    /\ stage = "form_data"
    /\ IF Truthy(form.data_di_form_id)
       THEN /\ form_identifier' = Str(<<"the '">> \o form.data_di_form_id[2] \o <<"' form">>)
            /\ identifier_found' = TRUE
       ELSE UNCHANGED <<form_identifier, identifier_found>>
    /\ stage' = "form_legend"
    /\ UNCHANGED outsideForm

\* CheckLegend without the test of identifier_found of line 642.
CheckLegendAlways ==
    /\ stage = "form_legend"
    /\ IF form.legend # None /\ form.legend[3] # <<>>
       THEN /\ form_identifier' = Str(<<"the '">> \o form.legend[3] \o <<"' form">>)
            /\ identifier_found' = TRUE
       ELSE UNCHANGED <<form_identifier, identifier_found>>
    /\ stage' = "form_heading"
    /\ UNCHANGED outsideForm

\* Lines 642-646: the text of the first legend of the form.
CheckLegend ==
    /\ stage = "form_legend"
    /\ IF ~identifier_found /\ form.legend # None /\ form.legend[3] # <<>>
       THEN /\ form_identifier' = Str(<<"the '">> \o form.legend[3] \o <<"' form">>)
            /\ identifier_found' = TRUE
       ELSE UNCHANGED <<form_identifier, identifier_found>>
    /\ stage' = "form_heading"
    /\ UNCHANGED outsideForm

\* Lines 649-653: the text of the first heading inside the form.
CheckInternalHeading ==
    /\ stage = "form_heading"
    /\ IF ~identifier_found /\ form.internal_heading # None /\ form.internal_heading[3] # <<>>
       THEN /\ form_identifier' = Str(<<"the '">> \o form.internal_heading[3] \o <<"' form">>)
            /\ identifier_found' = TRUE
       ELSE UNCHANGED <<form_identifier, identifier_found>>
    /\ stage' = "form_prev"
    /\ UNCHANGED outsideForm

\* Lines 656-662: the element just before the form, when it is a heading with text.
CheckPrevSibling ==
    /\ stage = "form_prev"
    /\ IF /\ ~identifier_found
          /\ form.prev_sibling # None
          /\ form.prev_sibling[2] \in heading_names
          /\ form.prev_sibling[3] # <<>>
       THEN /\ form_identifier' =
                   Str(<<"the form under the '">> \o form.prev_sibling[3] \o <<"' heading">>)
            /\ identifier_found' = TRUE
       ELSE UNCHANGED <<form_identifier, identifier_found>>
    /\ stage' = "form_parent_prev"
    /\ UNCHANGED outsideForm

\* Lines 665-672: the element just before the parent of the form.
CheckParentPrevSibling ==
    /\ stage = "form_parent_prev"
    /\ IF /\ ~identifier_found
          /\ form.parent # None
          /\ form.parent_prev_sibling # None
          /\ form.parent_prev_sibling[2] \in heading_names
          /\ form.parent_prev_sibling[3] # <<>>
       THEN /\ form_identifier' =
                   Str(<<"the form within the parent ", form.parent[2], " under the '">>
                       \o form.parent_prev_sibling[3] \o <<"' heading">>)
            /\ identifier_found' = TRUE
       ELSE UNCHANGED <<form_identifier, identifier_found>>
    /\ stage' = "form_login"
    /\ UNCHANGED outsideForm

\* Lines 681 and 686: one of the indicators occurs in the lowered string.
HasIndicator(s) ==
    \E indicator \in login_indicators :
        \E i \in 1..(Len(s) - Len(indicator) + 1) :
            SubSeq(LowerStr(s), i, i + Len(indicator) - 1) = indicator

\* Lines 680-683, 686-688 and 691-696: what marks a login form.
LoginClass(f) == \E k \in DOMAIN f.classes : f.classes[k] # <<>> /\ HasIndicator(f.classes[k])

LoginId(f) == Truthy(f.id) /\ HasIndicator(f.id[2])

LoginFields(f) == f.username_field /\ f.password_field

\* Lines 675-696: the cues of a login form.
CheckLogin ==
    /\ stage = "form_login"
    /\ IF ~identifier_found /\ (LoginClass(form) \/ LoginId(form) \/ LoginFields(form))
       THEN /\ form_identifier' = Str(<<"the login form">>)
            /\ identifier_found' = TRUE
       ELSE UNCHANGED <<form_identifier, identifier_found>>
    /\ stage' = "form_fallback"
    /\ UNCHANGED outsideForm

\* Lines 699-700: the number of the form among the forms recorded.
Fallback ==
    /\ stage = "form_fallback"
    /\ IF ~identifier_found
       THEN form_identifier' = Str(<<"form #", Digits(form.form_index + 1)>>)
       ELSE UNCHANGED form_identifier
    /\ stage' = "form_identified"
    /\ UNCHANGED <<identifier_found, outsideForm>>

InitForms ==
    /\ pc = "extract"
    /\ call = 1
    /\ elements_data = <<>>
    /\ primary_key = <<>>
    /\ context_hierarchy = <<>>
    /\ input0 = <<>>
    /\ initial_groups = <<>>
    /\ gi = 1
    /\ ambiguous_subgroup = <<>>
    /\ li = 1
    /\ resolved_in_this_group = {}
    /\ processed_elements_data = <<>>
    /\ final_data = <<>>
    /\ first_result = <<>>
    /\ html_content = <<>>
    /\ max_elements = 1
    /\ stage = "form"
    /\ cursor = 0
    /\ element_count = 0
    /\ elements = <<>>
    /\ result = <<>>
    /\ dom = <<>>
    /\ current = 0
    /\ dom_context = <<>>
    /\ form \in Forms
    /\ form_identifier = None
    /\ identifier_found = FALSE

NextForms ==
    \/ CheckLabelAndId
    \/ CheckDataAttribute
    \/ CheckLegend
    \/ CheckInternalHeading
    \/ CheckPrevSibling
    \/ CheckParentPrevSibling
    \/ CheckLogin
    \/ Fallback

SpecForms == InitForms /\ [][NextForms]_vars

---------------------------------------------------------------------------
(* What the claims speak of, stated on the records as they were passed in *)

Done == pc = "done"

HasContext(element) == "uniqueness_context" \in DOMAIN element

\* The level and the value of a record's uniqueness_context.
ContextLevel(element) == element["uniqueness_context"][2]["level"]

ContextValue(element) == element["uniqueness_context"][2]["value"]

\* The key path a level name stands for.
KeyOf(level) == CHOOSE kp \in LevelKeys \cup {<<"href">>} : PathStr(kp) = level

Primary(i) == get_nested_value(input0[i], primary_key)

\* The derived value of record i at the l-th level of the hierarchy.
Derived(i, l) == get_nested_value(input0[i], context_hierarchy[l])

\* The records sharing the primary value of record i (its primary group).
GroupOf(i) == {j \in 1..Len(input0) : Primary(j) = Primary(i)}

Shared(i) == Cardinality(GroupOf(i)) > 1

\* The records of a primary group that are still ambiguous on entry to level l:
\* the whole group at the first level, and then those whose derived value at
\* the level before was shared with another still ambiguous record.
RECURSIVE AmbiguousAt(_, _)
AmbiguousAt(g, l) ==
    IF l = 1 THEN (IF Cardinality(g) > 1 THEN g ELSE {})
    ELSE LET before == AmbiguousAt(g, l - 1)
         IN  {i \in before : \E j \in before \ {i} : Derived(j, l - 1) = Derived(i, l - 1)}

\* Record i is alone with its derived value among the still ambiguous at level l.
IsolatedAt(i, l) ==
    /\ i \in AmbiguousAt(GroupOf(i), l)
    /\ \A j \in AmbiguousAt(GroupOf(i), l) \ {i} : Derived(j, l) # Derived(i, l)

Levels == 1..Len(context_hierarchy)

\* The position of the first level that isolates record i, 0 when none does.
FirstIsolated(i) ==
    IF \E l \in Levels : IsolatedAt(i, l)
    THEN CHOOSE l \in Levels : IsolatedAt(i, l) /\ \A m \in 1..(l - 1) : ~IsolatedAt(i, m)
    ELSE 0

\* The id-to-href substitution applies to record i resolved at level l.
Substituted(i, l) ==
    /\ context_hierarchy[l] = <<"id">>
    /\ primary_key = <<"text">>
    /\ Truthy(get_nested_value(input0[i], <<"href">>))

---------------------------------------------------------------------------
(* The claims *)

\* C1: every uniqueness_context {level, value} identifies its record among all
\* the records of the call that share its primary value: no other record of
\* the primary group has that derived value at that level.
C1_ContextUniqueInGroup ==
    Done =>
        \A i \in 1..Len(final_data) :
            HasContext(final_data[i]) =>
                \A j \in GroupOf(i) \ {i} :
                    get_nested_value(input0[j], KeyOf(ContextLevel(final_data[i])))
                        # ContextValue(final_data[i])

\* C2 as stated: the reported level is the first level of the hierarchy at
\* which the record's subgroup had size 1.
C2_LevelIsFirstIsolating ==
    Done =>
        \A i \in 1..Len(final_data) :
            HasContext(final_data[i]) =>
                /\ FirstIsolated(i) # 0
                /\ ContextLevel(final_data[i]) = PathStr(context_hierarchy[FirstIsolated(i)])

\* C2 as amended: the reported level is the first level at which the record's
\* subgroup had size 1, except that 'href' is reported when that level is 'id',
\* the primary key is 'text' and the record's href-derived value is not empty.
C2_Minimality ==
    Done =>
        \A i \in 1..Len(final_data) :
            HasContext(final_data[i]) =>
                /\ FirstIsolated(i) # 0
                /\ ContextLevel(final_data[i]) =
                       IF Substituted(i, FirstIsolated(i)) THEN Str(<<"href">>)
                       ELSE PathStr(context_hierarchy[FirstIsolated(i)])

\* C2's case: a record is annotated with the second level of the hierarchy,
\* the first level having left it in a subgroup of more than one record.
C2_Witness ==
    /\ Done
    /\ \E i \in 1..Len(final_data) :
          /\ HasContext(final_data[i])
          /\ FirstIsolated(i) = 2
          /\ ContextLevel(final_data[i]) = PathStr(context_hierarchy[2])

ResolvedByLacking(i) == \E l \in Levels : IsolatedAt(i, l) /\ Derived(i, l) = None

\* Record i is still ambiguous after the last level.
AmbiguousToTheEnd(i) == i \in AmbiguousAt(GroupOf(i), Len(context_hierarchy) + 1)

C5_SingletonPassThrough ==
    Done =>
        \A i \in 1..Len(input0) :
            ~Shared(i) =>
                /\ i <= Len(final_data)
                /\ ~HasContext(final_data[i])
                /\ final_data[i] = input0[i]

\* C5's case: the call has a record alone with its primary value beside a
\* primary group of two, and a hierarchy that annotates a record of the group.
C5_Witness ==
    /\ Done
    /\ \E i, j \in 1..Len(input0) :
          /\ ~Shared(i)
          /\ final_data[i] = input0[i]
          /\ Shared(j)
          /\ HasContext(final_data[j])

\* C6: the returned list has the length of the input list and holds at every
\* position the input record of that position, at most annotated.
C6_OrderPreserved ==
    Done =>
        /\ Len(final_data) = Len(input0)
        /\ \A i \in 1..Len(input0) : Pop(final_data[i], "uniqueness_context") = input0[i]

\* C6's case: the groups interleave (the first and the last record share a
\* primary value the middle one has not) and a record is annotated.
C6_Witness ==
    /\ Done
    /\ Len(final_data) = 3
    /\ Primary(1) = Primary(3)
    /\ Primary(1) # Primary(2)
    /\ HasContext(final_data[3])
    /\ ~HasContext(final_data[1])

\* C7: a second call with the same records (the list as the first call left it,
\* or an equal copy of what the first call was given), the same primary key and
\* the same hierarchy returns, at every position, the same presence, level and
\* value of uniqueness_context as the first call.
C7_Idempotent ==
    (Done /\ call = 2) =>
        /\ Len(final_data) = Len(first_result)
        /\ \A i \in 1..Len(first_result) :
               /\ HasContext(final_data[i]) = HasContext(first_result[i])
               /\ HasContext(first_result[i]) =>
                      /\ ContextLevel(final_data[i]) = ContextLevel(first_result[i])
                      /\ ContextValue(final_data[i]) = ContextValue(first_result[i])

\* C7's case: the second call has returned; the first call had annotated a
\* record and left another of the same primary group ambiguous, and the caller's
\* list still holds the trackers the first call left in it.
C7_Witness ==
    /\ Done
    /\ call = 2
    /\ \E i, j \in 1..Len(first_result) :
          /\ HasContext(first_result[i])
          /\ ~HasContext(first_result[j])
          /\ Primary(i) = Primary(j)
          /\ "_original_index" \in DOMAIN elements_data[j]

\* The record has no value at the key path: the key is missing or holds None,
\* or a dotted path cannot be followed to its end.
Lacks(element, key_path) ==
    CASE key_path = <<"sibling_text">> ->
             Get(element, "next_sibling_text") = None
             /\ Get(element, "prev_sibling_text") = None
      [] key_path = <<"parent", "id">> ->
             \/ Get(element, "parent") = None
             \/ ~IsDict(Get(element, "parent"))
             \/ Get(Get(element, "parent")[2], "id") = None
      [] OTHER -> Get(element, Head(key_path)) = None

\* The record holds the empty string under a direct key.
HoldsEmpty(element, key_path) ==
    /\ key_path = <<"id">>
    /\ Get(element, "id") = Str(<<>>)

\* The positions in a list of the records of one subgroup.
SameSubgroup(subgroups, x, y) ==
    \E g \in 1..Len(subgroups) :
        {x, y} \subseteq {OriginalIdx(subgroups[g].group[m]) :
                             m \in 1..Len(subgroups[g].group)}

RECURSIVE TotalRecords(_, _)
TotalRecords(mapping, keys) ==
    IF keys = {} THEN 0
    ELSE LET k == CHOOSE x \in keys : TRUE
         IN  Len(mapping[k]) + TotalRecords(mapping, keys \ {k})

Returned == stage = "returned"

IsError(mapping) == "error" \in DOMAIN mapping

\* C9: the mapping parse_html_for_elements returns holds, summed over all its
\* categories, at most max_elements records.
C9_BudgetRespected ==
    (Returned /\ ~IsError(result)) =>
        TotalRecords(result, DOMAIN result) <= max_elements

\* C9's case: a page with more qualifying elements than the budget was cut off
\* by an early return, with the budget used up by records of two categories.
C9_Witness ==
    /\ Returned
    /\ ~IsError(result)
    /\ max_elements = 2
    /\ Cardinality({i \in 1..Len(html_content.nodes) :
                       html_content.nodes[i].qualifies /\ ~html_content.nodes[i].has_form}) = 3
    /\ Cardinality(DOMAIN result) = 2
    /\ TotalRecords(result, DOMAIN result) = 2

\* C10: when the markup string begins with the sentinel, the call returns
\* exactly {"error": the string}: no category key, and no extraction step is
\* ever taken (no category is created, nothing is counted).
C10_SentinelShortCircuits ==
    StartsWith(Chars(html_content), Sentinel) =>
        /\ stage \in {"entry", "returned"}
        /\ elements = <<>>
        /\ element_count = 0
        /\ Returned => (/\ DOMAIN result = {"error"}
                        /\ result["error"] = html_content)

\* C10's case: the call has returned on the string "Error fetching URL: timeout"
\* followed by markup that holds a qualifying element.
C10_Witness ==
    /\ Returned
    /\ html_content.text = Sentinel \o <<":", " ", "t", "i", "m", "e", "o", "u", "t">>
    /\ Len(html_content.nodes) = 1
    /\ html_content.nodes[1].qualifies
    /\ IsError(result)

\* C11: whichever return ends the extraction (an early return of the budget or
\* the normal completion), no category of the returned mapping is an empty
\* sequence, and a category without records is not a key of the mapping.
C11_NoEmptyCategory ==
    (Returned /\ ~IsError(result)) =>
        /\ \A k \in DOMAIN result : result[k] # <<>>
        /\ DOMAIN result = {c \in Categories : elements[c] # <<>>}

\* C11's case: an early return of the budget after the paragraphs, with a
\* heading emitted and a qualifying link never looked at: the mapping
\* returned has the headings and nothing else.
C11_Witness ==
    /\ Returned
    /\ max_elements = 1
    /\ DOMAIN result = {"headings"}
    /\ \E i \in 1..Len(html_content.nodes) :
          html_content.nodes[i].kind = "a" /\ html_content.nodes[i].qualifies

\* The categories of individual elements (all but the semantic landmarks).
IndividualCategories ==
    {"headings", "paragraphs", "links", "buttons", "images_and_logos", "icons", "forms"}

\* C12: in the mapping the extractor returns, every record of every category of
\* individual elements carries a sequential_index, and the k-th record of a
\* category (counted from 0) has sequential_index k.
C12_SequentialIndex ==
    (Returned /\ ~IsError(result)) =>
        \A c \in IndividualCategories \cap DOMAIN result :
            \A k \in 1..Len(result[c]) :
                /\ "sequential_index" \in DOMAIN result[c][k]
                /\ result[c][k]["sequential_index"] = k - 1

\* C13: add_uniqueness_context never raises, whatever the records, the primary
\* key and the hierarchy are, keys with a missing, non-mapping or list value
\* included.
C13_NeverRaises == pc # "raised"

C15_OnlyContextAdded ==
    Done =>
        \A i \in 1..Len(input0) :
            /\ Pop(final_data[i], "uniqueness_context") = input0[i]
            /\ Pop(elements_data[i], "uniqueness_context") = input0[i]
            /\ "_original_index" \notin DOMAIN final_data[i]
            /\ "_original_index" \notin DOMAIN elements_data[i]

\* C16: every record still ambiguous after the last context level is returned
\* at its original position, without uniqueness_context and with its fields
\* unchanged, and the call returns; with an empty hierarchy this holds for
\* every record whose primary value is shared.
C16_AmbiguityIsTerminal ==
    /\ pc # "raised"
    /\ Done =>
           \A i \in 1..Len(input0) :
               (AmbiguousToTheEnd(i) \/ (context_hierarchy = <<>> /\ Shared(i))) =>
                   /\ i <= Len(final_data)
                   /\ ~HasContext(final_data[i])
                   /\ final_data[i] = input0[i]

\* C16's case: two records with the same text, the same id and the same parent
\* id have gone through a hierarchy of two levels and come back unchanged.
C16_Witness ==
    /\ Done
    /\ Len(context_hierarchy) = 2
    /\ \E i, j \in 1..Len(input0) :
          /\ i # j
          /\ Primary(i) = Primary(j)
          /\ Primary(i) # None
          /\ \A l \in Levels : Derived(i, l) = Derived(j, l) /\ Derived(i, l) # None
          /\ AmbiguousToTheEnd(i)
          /\ final_data[i] = input0[i]
          /\ final_data[j] = input0[j]

\* C17: a record resolved at a level with a value gets a uniqueness_context;
\* when the level is 'id' and the primary key is 'text' it is {level: 'href',
\* value: the href-derived value} if that value is not empty and {level: 'id',
\* value: the id} otherwise; for every other level and primary key it is the
\* level that resolved the record and the record's derived value at it.
C17_HrefSubstitution ==
    Done =>
        \A i \in 1..Len(final_data) :
            LET l == FirstIsolated(i)
            IN  /\ HasContext(final_data[i]) <=> (l # 0 /\ Derived(i, l) # None)
                /\ HasContext(final_data[i]) =>
                       IF /\ context_hierarchy[l] = <<"id">>
                          /\ primary_key = <<"text">>
                          /\ HrefValue(input0[i]) \notin {None, Str(<<>>)}
                       THEN /\ ContextLevel(final_data[i]) = Str(<<"href">>)
                            /\ ContextValue(final_data[i]) = HrefValue(input0[i])
                       ELSE /\ ContextLevel(final_data[i]) = PathStr(context_hierarchy[l])
                            /\ ContextValue(final_data[i]) = Derived(i, l)

\* C17's case: under the primary key 'text' and at the level 'id', one record
\* is reported by its href and another, whose href-derived value is empty, by
\* its id.
C17_Witness ==
    /\ Done
    /\ primary_key = <<"text">>
    /\ \E i, j \in 1..Len(final_data) :
          /\ HasContext(final_data[i])
          /\ HasContext(final_data[j])
          /\ context_hierarchy[FirstIsolated(i)] = <<"id">>
          /\ context_hierarchy[FirstIsolated(j)] = <<"id">>
          /\ ContextLevel(final_data[i]) = Str(<<"href">>)
          /\ ContextLevel(final_data[j]) = PathStr(<<"id">>)
          /\ HrefValue(input0[j]) = Str(<<>>)

\* C18: no record of the buttons category is of an element that has a form
\* among its ancestors.
C18_NoButtonInsideForm ==
    (Returned /\ "buttons" \in DOMAIN result) =>
        \A k \in 1..Len(result["buttons"]) :
            ~html_content.nodes[result["buttons"][k].node].in_form


---------------------------------------------------------------------------
(* The dom_context of a heading or a link, once it is complete *)

Built == stage = "built"

\* The parent followed by the ancestors above it, nearest first.
ParentAndAncestors == <<dom_context.parent>> \o dom_context.ancestors

\* The places of the elements before and after the element.
TagsBefore == {q \in DOMAIN dom.before : dom.before[q] = "Tag"}

TagsAfter == {q \in DOMAIN dom.after : dom.after[q] = "Tag"}

\* C19 as stated: every entry of interactive_parents also appears in the
\* ancestors sequence of the record, and interactive_parents holds exactly
\* the entries of ancestors whose tag is button or a, or whose role is
\* button, tab or menuitem.
C19_WithinAncestors ==
    Built =>
        LET marked(a) == \/ a.tag \in {"button", "a"}
                         \/ a.role \in {Str(<<"button">>), Str(<<"tab">>), Str(<<"menuitem">>)}
        IN  /\ \A i \in DOMAIN dom_context.interactive_parents :
                   \E j \in DOMAIN dom_context.ancestors :
                       dom_context.ancestors[j] = dom_context.interactive_parents[i]
            /\ dom_context.interactive_parents = SelectSeq(dom_context.ancestors, marked)

\* C19 amended: interactive_parents holds, nearest first, exactly the entries
\* among the parent and the ancestors above it whose tag is button or a, or
\* whose role is button, tab or menuitem; the parent is one of them although
\* it is kept apart from the ancestors sequence.
C19_InteractiveAmongParentAndAncestors ==
    Built =>
        LET marked(a) == \/ a.tag \in {"button", "a"}
                         \/ a.role \in {Str(<<"button">>), Str(<<"tab">>), Str(<<"menuitem">>)}
        IN  /\ dom_context.interactive_parents = SelectSeq(ParentAndAncestors, marked)
            /\ ParentAndAncestors = [i \in DOMAIN dom.chain |->
                                        [tag |-> dom.chain[i].tag, role |-> dom.chain[i].role]]

\* An element whose parent is a link under a tab: both are interactive, the
\* parent is no entry of ancestors.
C19_Witness ==
    /\ Built
    /\ dom_context.parent.tag = "a"
    /\ Len(dom_context.ancestors) = 2
    /\ dom_context.ancestors[1].role = Str(<<"tab">>)
    /\ dom_context.interactive_parents = <<dom_context.parent, dom_context.ancestors[1]>>
    /\ \A j \in DOMAIN dom_context.ancestors : dom_context.ancestors[j] # dom_context.parent

\* C20: the previous and the next sequence never hold more than 3 entries;
\* once the dom_context is complete each holds the nearest elements on its
\* side in order of increasing distance (pieces of text between them are
\* passed over), fewer than 3 only when the side has fewer than 3 elements;
\* and the walk over the siblings always comes to its end.
C20_NearestSiblings ==
    /\ [](/\ Len(dom_context.previous) <= 3
          /\ Len(dom_context.next) <= 3
          /\ Built =>
                /\ Len(dom_context.previous) =
                       IF Cardinality(TagsBefore) < 3 THEN Cardinality(TagsBefore) ELSE 3
                /\ Len(dom_context.next) =
                       IF Cardinality(TagsAfter) < 3 THEN Cardinality(TagsAfter) ELSE 3
                /\ \A i \in DOMAIN dom_context.previous :
                       /\ dom_context.previous[i].id \in TagsBefore
                       /\ Cardinality({q \in TagsBefore : q > dom_context.previous[i].id}) = i - 1
                /\ \A i \in DOMAIN dom_context.next :
                       /\ dom_context.next[i].id \in TagsAfter
                       /\ Cardinality({q \in TagsAfter : q < dom_context.next[i].id}) = i - 1)
    /\ <>Built

\* Four elements before, the farthest left out; two elements after with a
\* piece of text between them, which is passed over.
C20_Witness ==
    /\ Built
    /\ dom.before = <<"Tag", "Tag", "Tag", "Tag">>
    /\ dom_context.previous = <<sibling_info(4), sibling_info(3), sibling_info(2)>>
    /\ dom.after = <<"Tag", "NavigableString", "Tag">>
    /\ dom_context.next = <<sibling_info(1), sibling_info(3)>>

---------------------------------------------------------------------------
(* The value derived for the level 'href' *)

\* sub occurs in s
Contains(s, sub) ==
    \E i \in 1..(Len(s) - Len(sub) + 1) : SubSeq(s, i, i + Len(sub) - 1) = sub

\* C21: the value derived for 'href' from a non-empty href holds neither the
\* scheme nor the host of the href, does not end with '/' and holds no '?';
\* a missing or empty href gives None.  Stated of the records of a finished call.
C21_HrefIsBarePath ==
    Done => \A i \in DOMAIN input0 :
        LET href == GetOr(input0[i], "href", Str(<<>>))
            value == get_nested_value(input0[i], <<"href">>)
        IN  IF ~Truthy(href)
            THEN value = None
            ELSE /\ IsStr(value)
                 /\ ~Contains(value[2], <<"h", ":">>)
                 /\ ~Contains(value[2], <<"x">>)
                 /\ ~Contains(value[2], <<"?">>)
                 /\ (Len(value[2]) > 0 => value[2][Len(value[2])] # "/")

---------------------------------------------------------------------------
(* The identifier of a form, once it is determined *)

Identified == stage = "form_identified"

\* The element is a heading with text.
HeadingWithText(e) == e # None /\ e[2] \in heading_names /\ e[3] # <<>>

\* C22: the form_identifier is the one of the first rule that matches, in the
\* order aria-label, id, data-di-form-id, legend text, heading inside the
\* form, heading just before the form, heading just before the parent of the
\* form, login cues, and 'form #N' when none of them matches.
C22_FirstMatchingRule ==
    Identified =>
        form_identifier =
            IF Truthy(form.aria_label)
            THEN Str(<<"the form labelled '">> \o form.aria_label[2] \o <<"'">>)
            ELSE IF Truthy(form.id)
            THEN Str(<<"the form with ID '">> \o form.id[2] \o <<"'">>)
            ELSE IF Truthy(form.data_di_form_id)
            THEN Str(<<"the '">> \o form.data_di_form_id[2] \o <<"' form">>)
            ELSE IF form.legend # None /\ form.legend[3] # <<>>
            THEN Str(<<"the '">> \o form.legend[3] \o <<"' form">>)
            ELSE IF form.internal_heading # None /\ form.internal_heading[3] # <<>>
            THEN Str(<<"the '">> \o form.internal_heading[3] \o <<"' form">>)
            ELSE IF HeadingWithText(form.prev_sibling)
            THEN Str(<<"the form under the '">> \o form.prev_sibling[3] \o <<"' heading">>)
            ELSE IF HeadingWithText(form.parent_prev_sibling)
            THEN Str(<<"the form within the parent ", form.parent[2], " under the '">>
                     \o form.parent_prev_sibling[3] \o <<"' heading">>)
            ELSE IF LoginClass(form) \/ LoginFields(form)
            THEN Str(<<"the login form">>)
            ELSE Str(<<"form #", Digits(form.form_index + 1)>>)

\* A form with a data-di-form-id, a legend, a heading before it and the
\* fields of a login form: the attribute, first in the order, names it.
C22_Witness ==
    /\ Identified
    /\ ~Truthy(form.aria_label) /\ ~Truthy(form.id)
    /\ form.data_di_form_id = Str(<<"d">>)
    /\ form.legend = Tag("legend", <<"G">>)
    /\ HeadingWithText(form.prev_sibling)
    /\ LoginFields(form)
    /\ form_identifier = Str(<<"the '", "d", "' form">>)

---------------------------------------------------------------------------
(* The application's call for the links *)

\* What the link loop read from the a element of record i.
LinkElement(i) == input0[i]["dom_context"][2]["element"][2]

\* C23: with the application's primary key and hierarchy for links, applied
\* to the link records as they are extracted, links with the same visible
\* text and different ids each get a uniqueness_context, and links with
\* different visible text are in different primary groups.
C23_LinksToldApartById ==
    Done =>
        \A i, j \in 1..Len(input0) :
            /\ (/\ LinkElement(i)["text"] = LinkElement(j)["text"]
                /\ LinkElement(i)["id"] # None
                /\ LinkElement(j)["id"] # None
                /\ LinkElement(i)["id"] # LinkElement(j)["id"]
                /\ \A k \in 1..Len(input0) :
                       k # i /\ LinkElement(k)["text"] = LinkElement(i)["text"]
                           => LinkElement(k)["id"] # LinkElement(i)["id"])
               => HasContext(final_data[i])
            /\ LinkElement(i)["text"] # LinkElement(j)["text"] => Primary(i) # Primary(j)

---------------------------------------------------------------------------
(* The records a page gives without a budget, and the prefix a budget keeps *)

\* The positions of the elements of some kinds for which the loop appends a
\* record, in document order.
Emitted(html, kinds) ==
    LET appends(i) == /\ html.nodes[i].qualifies
                      /\ (html.nodes[i].kind = "button" => ~html.nodes[i].has_form)
    IN  SelectSeq(find_all(html, kinds), appends)

Numbered(positions) ==
    [k \in DOMAIN positions |-> [node |-> positions[k], sequential_index |-> k - 1]]

Unnumbered(positions) == [k \in DOMAIN positions |-> [node |-> positions[k]]]

\* The records of a category when the budget never runs out.
AllRecords(html, category) ==
    CASE category = "headings" -> Numbered(Emitted(html, {"h"}))
      [] category = "paragraphs" -> Numbered(Emitted(html, {"p"}))
      [] category = "links" -> Unnumbered(Emitted(html, {"a"}))
      [] category = "buttons" -> Numbered(Emitted(html, {"button"}))
      [] category = "images_and_logos" -> Numbered(Emitted(html, {"img"}))
      [] category = "icons" -> Numbered(Emitted(html, {"i"}) \o Emitted(html, {"svg"}))
      [] category = "forms" -> Unnumbered(Emitted(html, {"form"}))
      [] category = "semantic_elements" ->
             LET present(tag_name) == Len(find_all(html, {tag_name})) > 0
                 tags == SelectSeq(semantic_tags, present)
             IN  [k \in DOMAIN tags |->
                     [tag |-> tags[k], count |-> Len(find_all(html, {tags[k]}))]]
      [] OTHER -> <<>>

\* The categories in the order of their loops.
ProcessingOrder ==
    <<"headings", "paragraphs", "links", "buttons", "images_and_logos", "icons",
      "forms", "semantic_elements">>

\* The number of records of the first n categories of the order.
RECURSIVE RecordsBefore(_, _)
RecordsBefore(html, n) ==
    IF n = 0 THEN 0
    ELSE RecordsBefore(html, n - 1) + Len(AllRecords(html, ProcessingOrder[n]))

Qualifying(html) == RecordsBefore(html, Len(ProcessingOrder))

Min(a, b) == IF a < b THEN a ELSE b

\* What is left for the n-th category of a budget of which the categories
\* before it took their share.
KeptOf(html, budget, n) ==
    LET left == Min(budget, Qualifying(html)) - RecordsBefore(html, n - 1)
        all == AllRecords(html, ProcessingOrder[n])
    IN  SubSeq(all, 1, IF left < 0 THEN 0 ELSE Min(left, Len(all)))

\* C24: a call that is not stopped by the sentinel returns a mapping of
\* categories that holds exactly min(max_elements, M) records, M being the
\* number of records the page gives without a budget: they are the first ones
\* in the order headings, paragraphs, links, buttons, images_and_logos, icons
\* (the i and span elements, then the svg elements), forms, semantic_elements,
\* so a category holds a prefix of its records and holds any only when the
\* categories before it are complete.
C24_BudgetKeepsPrefix ==
    (Returned /\ ~StartsWith(Chars(html_content), Sentinel)) =>
        /\ ~IsError(result)
        /\ DOMAIN result \subseteq Categories
        /\ TotalRecords(result, DOMAIN result) = Min(max_elements, Qualifying(html_content))
        /\ \A n \in DOMAIN ProcessingOrder :
               KeptOf(html_content, max_elements, n) =
                   IF ProcessingOrder[n] \in DOMAIN result
                   THEN result[ProcessingOrder[n]] ELSE <<>>
        /\ "inputs" \notin DOMAIN result

\* A budget of 2 on a page of an svg, an i and a link, all three giving a
\* record: the link and the i element are kept, the svg, first in the
\* document and last in the order, is cut off.
C24_Witness ==
    /\ Returned
    /\ max_elements = 2
    /\ html_content.text = <<>>
    /\ html_content.nodes = <<Node("svg", TRUE, FALSE, FALSE), Node("i", TRUE, FALSE, FALSE),
                              Node("a", TRUE, FALSE, FALSE)>>
    /\ result = [links |-> <<[node |-> 3]>>,
                 icons |-> <<[node |-> 2, sequential_index |-> 0]>>]

---------------------------------------------------------------------------
(* The course of the resolution of a primary group *)

\* The positions in the caller's list of the records still to be resolved.
StillAmbiguous == {OriginalIdx(ambiguous_subgroup[k]) : k \in 1..Len(ambiguous_subgroup)}

\* Record i was, at the first level that isolated it, the only still
\* ambiguous record without a value.
AloneInLacking(i) == FirstIsolated(i) # 0 /\ Derived(i, FirstIsolated(i)) = None

\* C25: a record that is at some level the only still ambiguous record of its
\* group without a value is resolved there: it is not among the records that
\* any later level examines, and it is returned as it was passed in, without
\* uniqueness_context, whatever the later levels would tell about it.
C25_LackingAloneIsResolved ==
    /\ pc = "level" =>
           \A i \in StillAmbiguous :
               \A l \in 1..(li - 1) : ~(IsolatedAt(i, l) /\ Derived(i, l) = None)
    /\ Done =>
           \A i \in 1..Len(final_data) :
               AloneInLacking(i) => /\ ~HasContext(final_data[i])
                                    /\ final_data[i] = input0[i]

\* C25's case: a record resolved at the first level as the only one without
\* a value is returned without uniqueness_context although the second level
\* gives it a value that no other record of its group has.
C25_Witness ==
    /\ Done
    /\ \E i \in 1..Len(final_data) :
          /\ FirstIsolated(i) = 1
          /\ Derived(i, 1) = None
          /\ Len(context_hierarchy) = 2
          /\ Derived(i, 2) # None
          /\ \A j \in GroupOf(i) \ {i} : Derived(j, 2) # Derived(i, 2)
          /\ Cardinality(GroupOf(i)) = 3
          /\ ~HasContext(final_data[i])

\* C26: a step over a context level divides all the records still ambiguous
\* on entry to the level by their derived value at that level alone: the
\* records whose value no other still ambiguous record of the group has are
\* resolved (stored in the result and no longer ambiguous), and all the
\* others, whatever subgroups they were in at earlier levels, together make
\* up the ambiguous list of the next level.
C26_PartitionOfAllAmbiguous ==
    [][(pc = "level" /\ li <= Len(context_hierarchy) /\ ambiguous_subgroup # <<>>
        /\ pc' # "raised") =>
        LET shared == {i \in StillAmbiguous :
                          \E j \in StillAmbiguous \ {i} : Derived(j, li) = Derived(i, li)}
        IN  /\ li' = li + 1
            /\ StillAmbiguous' = shared
            /\ Len(ambiguous_subgroup') = Cardinality(shared)
            /\ \A i \in StillAmbiguous \ shared :
                   /\ processed_elements_data[i] = <<>>
                   /\ processed_elements_data'[i] # <<>>
            /\ \A i \in shared : processed_elements_data'[i] = <<>>
       ]_vars

\* C26's case: four records of one primary group, two with each id and, across
\* them, two with each parent id, have passed both levels: at the second
\* level each was compared with the records of the other subgroup of the
\* first level too, so all four are still ambiguous.
C26_Witness ==
    /\ pc = "level"
    /\ li = 3
    /\ Len(input0) = 4
    /\ StillAmbiguous = 1..4
    /\ \A i \in 1..4 :
          /\ Cardinality({j \in 1..4 : Derived(j, 1) = Derived(i, 1)}) = 2
          /\ Cardinality({j \in 1..4 : Derived(j, 2) = Derived(i, 2)}) = 2
          /\ \A j \in (1..4) \ {i} :
                 Derived(j, 1) # Derived(i, 1) \/ Derived(j, 2) # Derived(i, 2)

\* Level l is the first to tell the records of the primary group of record i
\* apart, and it tells them all apart: before it they all have the same
\* derived value or all lack one, at it their values are there and differ.
AllApartAt(i, l) ==
    /\ Shared(i)
    /\ \A m \in 1..(l - 1) : \A j \in GroupOf(i) : Derived(j, m) = Derived(i, m)
    /\ \A j \in GroupOf(i) : Derived(j, l) # None
    /\ \A j, k \in GroupOf(i) : j # k => Derived(j, l) # Derived(k, l)

\* C27: when a level is the first to tell the records of a primary group
\* apart and gives them values that are all there and all different, every
\* record of the group is returned with that level and its own value at it as
\* uniqueness_context, or with 'href' and its href-derived value when the
\* level is 'id', the primary key is 'text' and that value is not empty.
C27_AllResolvedAtFirstTellingLevel ==
    Done =>
        \A i \in 1..Len(final_data) :
            \A l \in Levels :
                AllApartAt(i, l) =>
                    /\ HasContext(final_data[i])
                    /\ final_data[i]["uniqueness_context"] =
                           IF Substituted(i, l)
                           THEN Dict([level |-> Str(<<"href">>),
                                      value |-> get_nested_value(input0[i], <<"href">>)])
                           ELSE Dict([level |-> PathStr(context_hierarchy[l]),
                                      value |-> Derived(i, l)])

\* C27's case: three records with the same alt text and the same href and
\* with three different ids, under the levels href, id: each is returned with
\* the level id and its own id.
C27_Witness ==
    /\ Done
    /\ primary_key = <<"alt">>
    /\ context_hierarchy = <<(<<"href">>), <<"id">>>>
    /\ Len(final_data) = 3
    /\ AllApartAt(1, 2)
    /\ Derived(1, 1) # None
    /\ \A i \in 1..3 :
          final_data[i]["uniqueness_context"] =
              Dict([level |-> Str(<<"id">>), value |-> input0[i]["id"]])

\* C28: every call comes to its end, and on the way the set of the still
\* ambiguous records of a group only shrinks: a step over a level stores only
\* records that were still ambiguous, a record once stored in the result is
\* never stored or annotated again, and with no record left the loop over the
\* levels is left without looking at the levels that remain.
C28_TerminatesAndShrinks ==
    /\ [][/\ (pc = "level" /\ pc' = "level") =>
                /\ StillAmbiguous' \subseteq StillAmbiguous
                /\ \A i \in DOMAIN processed_elements_data :
                       processed_elements_data'[i] # processed_elements_data[i]
                           => i \in StillAmbiguous \ StillAmbiguous'
          /\ \A i \in DOMAIN processed_elements_data :
                 processed_elements_data[i] # <<>>
                     => processed_elements_data'[i] = processed_elements_data[i]
          /\ (pc = "level" /\ ambiguous_subgroup = <<>>) => (pc' = "group" /\ li' = li)
         ]_vars
    /\ <>Done

\* C28's case: a group of three under two levels, of which the first level
\* resolved one record and the second the two others.
C28_Witness ==
    /\ Done
    /\ Len(context_hierarchy) = 2
    /\ \E i \in 1..Len(final_data) :
          /\ Cardinality(GroupOf(i)) = 3
          /\ Cardinality(AmbiguousAt(GroupOf(i), 2)) = 2
          /\ AmbiguousAt(GroupOf(i), 3) = {}
          /\ Cardinality({j \in GroupOf(i) : HasContext(final_data[j])}) >= 2


----------------------------------------------------------------------------
(* Placed or still ambiguous *)

\* The positions in the caller's list of the records of the group being resolved.
CurrentGroup == {initial_groups[gi][k] : k \in 1..Len(initial_groups[gi])}

\* Slot i of the result holds record i of the caller's list, with or without
\* a uniqueness_context.
PlacedAtOwnPosition(i) ==
    /\ Len(processed_elements_data[i]) = 1
    /\ Pop(processed_elements_data[i][1], "uniqueness_context")
           = Pop(Pop(input0[i], "_original_index"), "uniqueness_context")

\* C29: while a primary group is resolved each of its records is either placed
\* in the result, in the slot of its own position, or in the still ambiguous
\* list, never both and never neither, and the list holds no record twice and
\* no record of another group; when the call returns every slot holds exactly
\* one record, so the returned list is the list of the slots, none dropped.
C29_PlacedOrStillAmbiguous ==
    /\ pc = "level" =>
          /\ StillAmbiguous \subseteq CurrentGroup
          /\ Cardinality(StillAmbiguous) = Len(ambiguous_subgroup)
          /\ \A i \in CurrentGroup :
                /\ (processed_elements_data[i] # <<>>) # (i \in StillAmbiguous)
                /\ processed_elements_data[i] # <<>> => PlacedAtOwnPosition(i)
    /\ Done =>
          /\ Len(final_data) = Len(input0)
          /\ \A i \in 1..Len(input0) :
                /\ PlacedAtOwnPosition(i)
                /\ final_data[i] = processed_elements_data[i][1]

\* A group of three is half resolved: one record is placed with a context and
\* two are still ambiguous before the second level.
C29_Witness ==
    /\ pc = "level"
    /\ li = 2
    /\ Cardinality(CurrentGroup) = 3
    /\ Cardinality(StillAmbiguous) = 2
    /\ \E i \in CurrentGroup :
          /\ processed_elements_data[i] # <<>>
          /\ HasContext(processed_elements_data[i][1])

----------------------------------------------------------------------------
(* Contexts within a primary group *)

\* C30: when the primary key is not 'text', two records of one primary group
\* that both come back with a uniqueness_context never come back with equal
\* ones: they differ in the level or in the value.
C30_ContextsDifferWithinGroup ==
    (Done /\ primary_key # <<"text">>) =>
        \A i, j \in 1..Len(final_data) :
            (/\ i # j
             /\ j \in GroupOf(i)
             /\ HasContext(final_data[i])
             /\ HasContext(final_data[j]))
                => final_data[i]["uniqueness_context"] # final_data[j]["uniqueness_context"]

\* Under the primary key 'alt' two records of one group come back annotated
\* at the same level, with different values, and a third record of the group
\* at another level.
C30_Witness ==
    /\ Done
    /\ primary_key = <<"alt">>
    /\ \E i, j, k \in 1..Len(final_data) :
          /\ i # j
          /\ {j, k} \subseteq GroupOf(i)
          /\ HasContext(final_data[i])
          /\ HasContext(final_data[j])
          /\ HasContext(final_data[k])
          /\ ContextLevel(final_data[i]) = ContextLevel(final_data[j])
          /\ ContextValue(final_data[i]) # ContextValue(final_data[j])
          /\ ContextLevel(final_data[k]) # ContextLevel(final_data[i])
=============================================================================
